---------------------------- MODULE Spec2Model ----------------------------
(***************************************************************************)
(* A model of the concurrency core of carla-mcp-server:                    *)
(*   - utils/async_helpers.py: run_blocking and batch_blocking, which run  *)
(*     blocking calls on the event loop's default thread pool under a      *)
(*     timeout (asyncio.wait_for over asyncio.to_thread);                  *)
(*   - tools/parameter_tools.py: automations, recordings, morphs and       *)
(*     randomize_parameters, with the threads they start;                  *)
(*   - tools/routing_tools.py and tools/analysis_tools.py: the connection  *)
(*     tables and the feedback detection over them;                        *)
(*   - tools/session_tools.py: sessions and snapshots, handled one after   *)
(*     another and overlapping at their awaits;                            *)
(*   - carla_controller.py: the plugin table under load_project, and       *)
(*     set_parameter called by two threads.                                *)
(* Each component has its own specification (SpecBatch, SpecBatchYield,    *)
(* SpecBridge, SpecAutomation, SpecRecording, SpecRouting,                 *)
(* SpecRoutingTable, SpecSession, SpecSessionRace, SpecTables,             *)
(* SpecWriters, SpecMorph, SpecProcesses); the variables of the other      *)
(* components stay at their initial values.                                *)
(***************************************************************************)
EXTENDS Integers, Sequences, FiniteSets, TLC

VARIABLES
    \* ---- batch_blocking (one call) ----
    operations,     \* the input list: one record [kind, val] per operation
    batch_size,     \* the batch_size argument
    results,        \* the local list `results`
    batch_start,    \* the loop variable of `for batch_start in range(...)`
    bpc,            \* the coroutine is at: "idle", "loop", "await", "yield", "done"
    bworkers,       \* one record per execute_batch handed to the thread pool
    ready,          \* the event loop's queue of tasks ready to run
    other,          \* another request of the server: not there, pending, or run
    \* ---- run_blocking (calls issued one after another) ----
    py311,          \* TRUE when asyncio.TimeoutError is the builtin TimeoutError
    call,           \* the call in progress (or the idle record)
    worker,         \* the state of the call's function on the thread pool
    leaked,         \* workers of timed-out calls that still hold a pool thread
    \* ---- ParameterTools: automations ----
    automations,    \* self.automations: automation id -> record
    threads,        \* automation id -> where its _run_automation thread is
    writes,         \* automation id -> the values it passed to carla.set_parameter
    host_value,     \* the engine's value of the plugin's parameter
    mirror,         \* carla.plugins[0]['parameters']: parameter id -> the controller's copy
    cancel_requested, \* automations whose cancellation has been requested
    sched_calls,    \* blocking calls the scheduler thread made itself
    \* ---- ParameterTools: recordings and set_parameter ----
    recording_sessions, \* self.recording_sessions: recording id -> record
    rthreads,       \* recording id -> where its _record_parameters thread is
    set_results,    \* the results the set_parameter requests returned
    \* ---- routing: connections and feedback analysis ----
    connections,    \* carla.connections: the controller's connection list
    routing_connections, \* RoutingTools.connections: the connection table
    feedback,       \* the last result of detect_feedback
    routing_matrix, \* the last result of get_routing_matrix
    \* ---- SessionTools: sessions and snapshots ----
    sessions,       \* self.sessions: session id -> record
    snapshots,      \* self.snapshots: snapshot id -> record
    active_session, \* self.active_session, "none" for None
    files,          \* storage: session or snapshot id -> its project file
    dirs,           \* storage: the snapshot directories that exist
    eng_values,     \* the engine: parameter id -> value of the plugin's parameter
    eng_active,     \* the engine: the plugin's active flag
    plugins,        \* carla.plugins: plugin id -> the controller's record
    sreq,           \* the session request being handled, or the last one ended
    rworker,        \* the execute_batch that applies a snapshot's parameters
    \* ---- CarlaController: the plugin table under a load ----
    loadw,          \* where the load_project call on the pool thread is
    setw,           \* where the carla.set_parameter call of an automation thread is
    \* ---- ParameterTools: morph and randomize ----
    pvalues,        \* the engine: parameter id -> value
    morph,          \* the morph: its captured state and where its thread is
    mwrites,        \* the set_parameter calls the morph thread issued
    rand,           \* the last randomize_parameters request and its writes
    \* ---- requests and writers that overlap ----
    requests,       \* the session requests suspended at an await
    response,       \* the response returned last
    issued,         \* how many session requests were issued
    setcalls        \* where each writer of the parameter is in carla.set_parameter

batchVars == <<operations, batch_size, results, batch_start, bpc, bworkers, ready, other>>
bridgeVars == <<py311, call, worker, leaked>>
autoVars == <<automations, threads, writes, host_value, mirror, cancel_requested,
              sched_calls>>
recVars == <<recording_sessions, rthreads, set_results>>
routeVars == <<connections, routing_connections, feedback, routing_matrix>>
sessVars == <<sessions, snapshots, active_session, files, dirs, eng_values, eng_active,
              plugins, sreq, rworker>>
tableVars == <<loadw, setw>>
morphVars == <<pvalues, morph, mwrites, rand>>
raceVars == <<requests, response, issued, setcalls>>
vars == <<batchVars, bridgeVars, autoVars, recVars, routeVars, sessVars, tableVars,
          morphVars, raceVars>>

\* ------------------------------------------------------------------ bounds

\* Longest operation list handed to batch_blocking.
MaxOps == 3
\* Largest batch_size tried.
MaxBatch == 3
\* Threads of the default executor that asyncio.to_thread submits to.  CPython
\* sizes it min(32, cpu_count + 4); the model scales it down.
MaxWorkers == 2
\* Longest timeout given to run_blocking, in ticks.
MaxTimeout == 2
\* Most steps of an automation: duration_ms goes up to 10 * MaxSteps.
MaxSteps == 2
\* Most sampling rounds of a recording, and most set_parameter requests.
MaxSamples == 2
\* Most connections made.
MaxConnections == 3
\* Most load_project calls.
MaxLoads == 2
\* Most session requests issued.
MaxRequests == 4

\* ------------------------------------------------------- shared helpers

\* Python's None, as a result slot.
None == <<>>

Min(a, b) == IF a < b THEN a ELSE b

\* [None] * n
RECURSIVE Nones(_)
Nones(n) == IF n <= 0 THEN <<>> ELSE <<None>> \o Nones(n - 1)

\* ============================================================ batch_blocking

\* What an operation does when called: return its value, raise, or never return.
OpKinds == {"ok", "raise", "hang"}

\* Operation lists of length n; operation i returns the value <<i>>, so that a
\* result can be told from every other operation's result.
OpLists(n) ==
    { [i \in 1..n |-> [kind |-> k[i], val |-> <<i>>]] : k \in [1..n -> OpKinds] }

\* The pool threads in use: a worker holds one from its start to its return.
BatchThreadsBusy == Cardinality({w \in DOMAIN bworkers : bworkers[w].st = "running"})

\* The worker of the batch being awaited: the last one submitted.
CurWorker == Len(bworkers)

\* No batch_blocking call is made.
IdleBatch ==
    /\ operations = <<>>
    /\ batch_size = 1
    /\ results = <<>>
    /\ batch_start = 0
    /\ bpc = "idle"
    /\ bworkers = <<>>
    /\ ready = <<>>
    /\ other = [st |-> "none"]

InitBatch ==
    /\ operations \in UNION { OpLists(n) : n \in 0..MaxOps }
    /\ batch_size \in 1..MaxBatch
    /\ results = <<>>
    /\ batch_start = 0
    /\ bpc = "loop"
    /\ bworkers = <<>>
    /\ ready = <<>>
    /\ other = [st |-> "none"]

\* batch_end = min(batch_start + batch_size, len(operations))
BatchEnd(start) == Min(start + batch_size, Len(operations))

\* Line 193-195, 211-212: the next batch is cut out and execute_batch is handed
\* to the pool; the coroutine waits in wait_for.
BatchSubmit ==
    /\ bpc = "loop"
    /\ batch_start < Len(operations)
    /\ bworkers' = Append(bworkers,
            [lo |-> batch_start, hi |-> BatchEnd(batch_start), pos |-> batch_start,
             out |-> <<>>, st |-> "queued", abandoned |-> FALSE])
    /\ bpc' = "await"
    /\ UNCHANGED <<operations, batch_size, results, batch_start, ready, other>>

\* A queued execute_batch starts when a pool thread is free.
BatchWorkerStart(w) ==
    /\ bworkers[w].st = "queued"
    /\ BatchThreadsBusy < MaxWorkers
    /\ bworkers' = [bworkers EXCEPT ![w].st = "running"]
    /\ UNCHANGED <<operations, batch_size, results, batch_start, bpc, ready, other>>

\* The slot execute_batch appends for an operation that raised (line 204-206).
\* (FailedSlotLost: the faulty variant that appends nothing.)
FailedSlotLost == <<>>
FailedSlot == <<None>>

\* The worker after one iteration of `for func, args, kwargs in batch` on
\* operation op (line 200-206): the result or None is appended.
\* (ExecOpAbort: the faulty variant without the try/except, where the
\* exception ends execute_batch.)
ExecOpAbort(w, op) ==
    IF op.kind = "ok"
    THEN [w EXCEPT !.pos = @ + 1, !.out = @ \o <<op.val>>]
    ELSE [w EXCEPT !.st = "raised"]
ExecOp(w, op) ==
    IF op.kind = "ok"
    THEN [w EXCEPT !.pos = @ + 1, !.out = @ \o <<op.val>>]
    ELSE [w EXCEPT !.pos = @ + 1, !.out = @ \o FailedSlot]

\* One operation of the batch runs on the worker thread.  An operation that
\* hangs never returns, so the worker stays where it is.
BatchWorkerExec(w) ==
    /\ bworkers[w].st = "running"
    /\ bworkers[w].pos < bworkers[w].hi
    /\ operations[bworkers[w].pos + 1].kind # "hang"
    /\ bworkers' = [bworkers EXCEPT ![w] = ExecOp(@, operations[bworkers[w].pos + 1])]
    /\ UNCHANGED <<operations, batch_size, results, batch_start, bpc, ready, other>>

\* execute_batch returns batch_results (line 207); the thread is free again.
BatchWorkerReturn(w) ==
    /\ bworkers[w].st = "running"
    /\ bworkers[w].pos = bworkers[w].hi
    /\ bworkers' = [bworkers EXCEPT ![w].st = "done"]
    /\ UNCHANGED <<operations, batch_size, results, batch_start, bpc, ready, other>>

\* What wait_for's timeout adds to results (line 216-218).
\* (TimeoutFillOne: the faulty variant that adds a single None.)
TimeoutFillOne(w) == <<None>>
TimeoutFill(w) == Nones(w.hi - w.lo)

\* Where the coroutine goes after the except clause of line 216-218: on to the
\* yield of line 221, and from there to the next batch.
\* (AfterTimeoutRaise: the faulty variant that lets the timeout end the call.)
AfterTimeoutRaise == "failed"
AfterTimeout == "yield"

\* The event loop's queue after the coroutine reached await asyncio.sleep(0)
\* (line 221): its task is put behind the tasks that are ready to run.
\* (AfterYieldAhead: the faulty variant in which the coroutine goes on ahead
\* of them, as without the yield.)
AfterYieldAhead(queue) == <<"batch">> \o queue
AfterYield(queue) == Append(queue, "batch")

\* wait_for returned execute_batch's list in time (line 211-215); the
\* coroutine goes on to the yield of line 221.
BatchReturn ==
    /\ bpc = "await"
    /\ bworkers[CurWorker].st = "done"
    /\ results' = results \o bworkers[CurWorker].out
    /\ bpc' = "yield"
    /\ ready' = AfterYield(ready)
    /\ UNCHANGED <<operations, batch_size, batch_start, bworkers, other>>

\* wait_for timed out (line 216-218).  The wait is cancelled, not the thread: a
\* started execute_batch keeps running in the background, one that is still
\* queued is cancelled and never runs.  The deadline is not tied to a clock
\* here: it may pass at any moment of the wait.
BatchTimeout ==
    /\ bpc = "await"
    /\ results' = results \o TimeoutFill(bworkers[CurWorker])
    /\ bworkers' = [bworkers EXCEPT ![CurWorker] =
            IF @.st = "queued" THEN [@ EXCEPT !.st = "cancelled", !.abandoned = TRUE]
            ELSE [@ EXCEPT !.abandoned = TRUE]]
    /\ bpc' = AfterTimeout
    /\ ready' = AfterYield(ready)
    /\ UNCHANGED <<operations, batch_size, batch_start, other>>

\* The event loop resumes the coroutine after await asyncio.sleep(0), when its
\* task is first in the queue; then the next value of
\* range(0, len, batch_size).
BatchYield ==
    /\ bpc = "yield"
    /\ ready # <<>>
    /\ Head(ready) = "batch"
    /\ ready' = Tail(ready)
    /\ batch_start' = batch_start + batch_size
    /\ bpc' = "loop"
    /\ UNCHANGED <<operations, batch_size, results, bworkers, other>>

\* The range is exhausted: return results (line 223).
BatchDone ==
    /\ bpc = "loop"
    /\ batch_start >= Len(operations)
    /\ bpc' = "done"
    /\ UNCHANGED <<operations, batch_size, results, batch_start, bworkers, ready, other>>

NextBatch ==
    \/ BatchSubmit
           /\ UNCHANGED <<bridgeVars, autoVars, recVars, routeVars, sessVars, tableVars, morphVars,
                          raceVars>>
    \/ \E w \in DOMAIN bworkers : BatchWorkerStart(w)
           /\ UNCHANGED <<bridgeVars, autoVars, recVars, routeVars, sessVars, tableVars, morphVars,
                          raceVars>>
    \/ \E w \in DOMAIN bworkers : BatchWorkerExec(w)
           /\ UNCHANGED <<bridgeVars, autoVars, recVars, routeVars, sessVars, tableVars, morphVars,
                          raceVars>>
    \/ \E w \in DOMAIN bworkers : BatchWorkerReturn(w)
           /\ UNCHANGED <<bridgeVars, autoVars, recVars, routeVars, sessVars, tableVars, morphVars,
                          raceVars>>
    \/ BatchReturn
           /\ UNCHANGED <<bridgeVars, autoVars, recVars, routeVars, sessVars, tableVars, morphVars,
                          raceVars>>
    \/ BatchTimeout
           /\ UNCHANGED <<bridgeVars, autoVars, recVars, routeVars, sessVars, tableVars, morphVars,
                          raceVars>>
    \/ BatchYield
           /\ UNCHANGED <<bridgeVars, autoVars, recVars, routeVars, sessVars, tableVars, morphVars,
                          raceVars>>
    \/ BatchDone
           /\ UNCHANGED <<bridgeVars, autoVars, recVars, routeVars, sessVars, tableVars, morphVars,
                          raceVars>>


\* ---------------------------------------------------- batch_blocking: claims

\* Operation i (1-based) has been called by some execute_batch.
Executed(i) == \E w \in DOMAIN bworkers : bworkers[w].lo < i /\ i <= bworkers[w].pos

\* Some batch of the call timed out.
SomeBatchTimedOut == \E w \in DOMAIN bworkers : bworkers[w].abandoned

\* C1: the list batch_blocking returns has exactly as many entries as the
\* input list, whatever the batch size, also when operations raise and batches
\* time out.
BatchLengthPreserved == bpc = "done" => Len(results) = Len(operations)

\* C1 witness: a call of at least two operations has returned after a batch
\* timed out and an operation raised.
BatchLengthWitness ==
    /\ bpc = "done"
    /\ Len(operations) >= 2
    /\ SomeBatchTimedOut
    /\ \E i \in DOMAIN operations : operations[i].kind = "raise" /\ Executed(i)

\* C2: slot i of the results is None or the value operation i returned, never
\* another operation's value.
BatchSlotsCorrespond ==
    \A i \in DOMAIN results :
        /\ i \in DOMAIN operations
        /\ results[i] \in {None, operations[i].val}

\* C2 witness: the call returned a value in a slot that comes after a slot of an
\* operation that raised, and after a batch that timed out.
BatchSlotsWitness ==
    /\ bpc = "done"
    /\ \E i, j \in DOMAIN results :
        /\ i < j
        /\ operations[i].kind = "raise" /\ Executed(i) /\ results[i] = None
        /\ results[j] = operations[j].val
    /\ SomeBatchTimedOut

\* The step in which worker w calls an operation that raises.
RaisingStep(w) ==
    /\ bworkers[w].st = "running"
    /\ bworkers[w].pos < bworkers[w].hi
    /\ operations[bworkers[w].pos + 1].kind = "raise"
    /\ \/ bworkers'[w].pos # bworkers[w].pos
       \/ bworkers'[w].st # bworkers[w].st

\* C3: an operation that raises does not abort anything: the worker appends
\* None for it and goes on with the next operation of the batch, the coroutine
\* is not disturbed, and a call in which no batch timed out ends with every
\* operation executed, None in the slots of those that raised and the value in
\* the others.
BatchRaiseDoesNotAbort ==
    /\ [][\A w \in DOMAIN bworkers :
            RaisingStep(w) =>
                /\ bworkers'[w].st = "running"
                /\ bworkers'[w].pos = bworkers[w].pos + 1
                /\ bworkers'[w].out = Append(bworkers[w].out, None)
                /\ bpc' = bpc]_vars
    /\ [](bpc = "done" /\ ~SomeBatchTimedOut =>
            \A i \in DOMAIN operations :
                /\ Executed(i)
                /\ results[i] = IF operations[i].kind = "raise" THEN None
                                ELSE operations[i].val)

\* C3 witness: a call whose first operation raised has returned without any
\* timeout, with a later operation of the same batch and one of a later batch
\* executed.
BatchRaiseWitness ==
    /\ bpc = "done"
    /\ ~SomeBatchTimedOut
    /\ Len(operations) = 3
    /\ batch_size = 2
    /\ operations[1].kind = "raise"
    /\ results = <<None, operations[2].val, operations[3].val>>

\* C4: a batch that times out puts None in every slot of that batch, and the
\* call goes on: it never fails, and when it returns every batch has been
\* handed to the pool.
BatchTimeoutContinues ==
    /\ bpc \in {"loop", "await", "yield", "done"}
    /\ \A w \in DOMAIN bworkers :
        bworkers[w].abandoned =>
            \A i \in (bworkers[w].lo + 1)..bworkers[w].hi :
                i \in DOMAIN results /\ results[i] = None
    /\ bpc = "done" =>
        \A i \in DOMAIN operations :
            \E w \in DOMAIN bworkers : bworkers[w].lo < i /\ i <= bworkers[w].hi

\* C4 witness: a batch timed out with one of its operations completed and
\* another not, and the next batch ran and delivered its value.
BatchTimeoutWitness ==
    /\ bpc = "done"
    /\ \E w \in DOMAIN bworkers :
        /\ bworkers[w].abandoned
        /\ bworkers[w].lo < bworkers[w].pos
        /\ bworkers[w].pos < bworkers[w].hi
        /\ w + 1 \in DOMAIN bworkers
        /\ bworkers[w + 1].st = "done"
        /\ ~bworkers[w + 1].abandoned
        /\ results[bworkers[w + 1].hi] = operations[bworkers[w + 1].hi].val

\* C34: at most one operation of a batch_blocking call is being executed at
\* any time, also after a timeout: no two execute_batch workers of the call
\* are on a thread with operations left to run.
OneOperationAtATime ==
    \A w1, w2 \in DOMAIN bworkers :
        (/\ w1 < w2
         /\ bworkers[w1].st = "running"
         /\ bworkers[w1].pos < bworkers[w1].hi)
            => ~(bworkers[w2].st = "running" /\ bworkers[w2].pos < bworkers[w2].hi)

\* ----------------------------------- batch_blocking next to another request

\* Another request becomes ready to run on the event loop while the call is
\* in progress: its task is appended to the loop's queue.  at keeps how many
\* results the call had gathered at that moment.
OtherArrives ==
    /\ other.st = "none"
    /\ bpc \in {"loop", "await", "yield"}
    /\ other' = [st |-> "pending", at |-> Len(results)]
    /\ ready' = Append(ready, "other")
    /\ UNCHANGED <<operations, batch_size, results, batch_start, bpc, bworkers>>

\* The event loop runs the other request's task, which is first in its queue.
OtherRuns ==
    /\ other.st = "pending"
    /\ ready # <<>>
    /\ Head(ready) = "other"
    /\ other' = [st |-> "ran"]
    /\ ready' = Tail(ready)
    /\ UNCHANGED <<operations, batch_size, results, batch_start, bpc, bworkers>>

NextBatchYield ==
    \/ BatchSubmit
           /\ UNCHANGED <<bridgeVars, autoVars, recVars, routeVars, sessVars, tableVars, morphVars,
                          raceVars>>
    \/ \E w \in DOMAIN bworkers : BatchWorkerStart(w)
           /\ UNCHANGED <<bridgeVars, autoVars, recVars, routeVars, sessVars, tableVars, morphVars,
                          raceVars>>
    \/ \E w \in DOMAIN bworkers : BatchWorkerExec(w)
           /\ UNCHANGED <<bridgeVars, autoVars, recVars, routeVars, sessVars, tableVars, morphVars,
                          raceVars>>
    \/ \E w \in DOMAIN bworkers : BatchWorkerReturn(w)
           /\ UNCHANGED <<bridgeVars, autoVars, recVars, routeVars, sessVars, tableVars, morphVars,
                          raceVars>>
    \/ BatchReturn
           /\ UNCHANGED <<bridgeVars, autoVars, recVars, routeVars, sessVars, tableVars, morphVars,
                          raceVars>>
    \/ BatchTimeout
           /\ UNCHANGED <<bridgeVars, autoVars, recVars, routeVars, sessVars, tableVars, morphVars,
                          raceVars>>
    \/ BatchYield
           /\ UNCHANGED <<bridgeVars, autoVars, recVars, routeVars, sessVars, tableVars, morphVars,
                          raceVars>>
    \/ BatchDone
           /\ UNCHANGED <<bridgeVars, autoVars, recVars, routeVars, sessVars, tableVars, morphVars,
                          raceVars>>
    \/ OtherArrives
           /\ UNCHANGED <<bridgeVars, autoVars, recVars, routeVars, sessVars, tableVars, morphVars,
                          raceVars>>
    \/ OtherRuns
           /\ UNCHANGED <<bridgeVars, autoVars, recVars, routeVars, sessVars, tableVars, morphVars,
                          raceVars>>

\* C33: between two batches the coroutine yields to the event loop: when it
\* goes on after the yield, a request that was ready to run when the batch
\* finished is no longer waiting, it has run.
YieldBetweenBatches ==
    [][(bpc = "yield" /\ bpc' # "yield") =>
          ~(other.st = "pending" /\ other.at < Len(results))]_vars

\* The other request became ready while the first batch was awaited and was
\* still waiting when that batch finished; the coroutine has yielded, more
\* batches are to come, and the request is ahead of it in the queue.
YieldBetweenBatchesWitness ==
    /\ bpc = "yield"
    /\ other.st = "pending"
    /\ other.at = 0
    /\ Len(results) >= 1
    /\ Len(bworkers) = 1
    /\ Len(results) < Len(operations)
    /\ ready = <<"other", "batch">>

\* ============================================================== run_blocking
\* Calls are issued one after another, as a request handler awaits them; the
\* workers that earlier, timed-out calls left behind stay in the pool.

\* What the function passed to run_blocking does: return, raise an error,
\* raise the builtin TimeoutError, or never return.
FuncKinds == {"ok", "raise", "raise_timeout", "hang"}
\* The value a function returns, or the message of the error it raises.
Payloads == {"p1", "p2"}
\* The description argument.
Descriptions == {"load project", "save project"}
\* The timeout argument, in ticks of the model's clock.
Timeouts == 1..MaxTimeout

\* No run_blocking call is made.
IdleBridge ==
    /\ py311 = TRUE
    /\ call = [pc |-> "idle"]
    /\ worker = [st |-> "none"]
    /\ leaked = [hung |-> 0, slow |-> 0]

InitBridge ==
    /\ py311 \in BOOLEAN
    /\ call = [pc |-> "idle"]
    /\ worker = [st |-> "none"]
    /\ leaked = [hung |-> 0, slow |-> 0]

\* The pool threads in use: the leaked workers and the call's worker while it runs.
BridgeThreadsBusy ==
    leaked.hung + leaked.slow + (IF worker.st = "running" THEN 1 ELSE 0)

\* The exception the function raises.
RaisedBy(func) ==
    [type |-> IF func.kind = "raise_timeout" THEN "TimeoutError" ELSE "Exception",
     msg |-> func.val]

\* f"{description} exceeded {timeout}s timeout" (line 133).
\* (TimeoutMsgNoDescription: the faulty variant that leaves the description out.)
TimeoutMsgNoDescription(desc, timeout) == "exceeded " \o ToString(timeout) \o "s timeout"
TimeoutMsg(desc, timeout) == desc \o " exceeded " \o ToString(timeout) \o "s timeout"

\* raise TimeoutError(error_msg) (line 135).
MakeTimeoutError(desc, timeout) == [type |-> "TimeoutError", msg |-> TimeoutMsg(desc, timeout)]

\* `except Exception as e: ...; raise` (line 136-138): the exception that leaves
\* run_blocking.  (ReraiseWrapped: the variant that would convert it.)
ReraiseWrapped(e) == [type |-> "OperationFailure", msg |-> e.msg]
Reraise(e) == e

\* `except asyncio.TimeoutError` (line 132) catches exception e: the timeout of
\* wait_for, and since Python 3.11, where asyncio.TimeoutError is the builtin
\* TimeoutError, also a TimeoutError the function raised itself.
CaughtAsTimeout(e) == py311 /\ e.type = "TimeoutError"

\* run_blocking is called: asyncio.to_thread hands func to the pool and
\* wait_for starts its timer (line 127-130).
CallStart(func, timeout, desc) ==
    /\ call.pc \in {"idle", "ended"}
    /\ call' = [pc |-> "await", func |-> func, timeout |-> timeout, desc |-> desc,
                elapsed |-> 0]
    /\ worker' = [st |-> "queued"]
    /\ UNCHANGED <<py311, leaked>>

\* The queued function starts when a pool thread is free.
WorkerStart ==
    /\ call.pc = "await"
    /\ worker.st = "queued"
    /\ BridgeThreadsBusy < MaxWorkers
    /\ worker' = [st |-> "running"]
    /\ UNCHANGED <<py311, call, leaked>>

\* The function returns or raises on its thread, at the current tick.
WorkerFinish ==
    /\ call.pc = "await"
    /\ worker.st = "running"
    /\ call.func.kind # "hang"
    /\ worker' = [st |-> IF call.func.kind = "ok" THEN "returned" ELSE "raised",
                  at |-> call.elapsed]
    /\ UNCHANGED <<py311, call, leaked>>

\* Time passes for the waiting caller, up to the deadline.
Tick ==
    /\ call.pc = "await"
    /\ call.elapsed < call.timeout
    /\ call' = [call EXCEPT !.elapsed = @ + 1]
    /\ UNCHANGED <<py311, worker, leaked>>

\* The record of a call that ended: its arguments, the way wait_for ended
\* ("return", "raise" or "timeout"), the outcome of run_blocking, and what the
\* worker was doing when the wait ended.
Ended(via, outcome, wst, at) ==
    [pc |-> "ended", func |-> call.func, timeout |-> call.timeout, desc |-> call.desc,
     via |-> via, outcome |-> outcome, wst |-> wst, at |-> at]

\* wait_for delivers the function's result before the deadline (line 131).
CallReturn ==
    /\ call.pc = "await"
    /\ worker.st = "returned"
    /\ call.elapsed < call.timeout
    /\ call' = Ended("return", [type |-> "result", msg |-> call.func.val], "returned", worker.at)
    /\ worker' = [st |-> "none"]
    /\ UNCHANGED <<py311, leaked>>

\* wait_for delivers the function's exception before the deadline; one of the
\* two except clauses handles it (line 132-138).
CallRaise ==
    /\ call.pc = "await"
    /\ worker.st = "raised"
    /\ call.elapsed < call.timeout
    /\ call' = Ended("raise", IF CaughtAsTimeout(RaisedBy(call.func))
                              THEN MakeTimeoutError(call.desc, call.timeout)
                              ELSE Reraise(RaisedBy(call.func)),
                     "raised", worker.at)
    /\ worker' = [st |-> "none"]
    /\ UNCHANGED <<py311, leaked>>

\* The pool after the caller gave up on its worker: a running function is not
\* interrupted and keeps its thread (for ever, if it hangs); a queued one is
\* cancelled; a finished one had freed its thread already.
AfterAbandon(w, kind) ==
    IF w.st # "running" THEN leaked
    ELSE IF kind = "hang" THEN [leaked EXCEPT !.hung = @ + 1]
    ELSE [leaked EXCEPT !.slow = @ + 1]

\* The deadline is reached: wait_for raises asyncio.TimeoutError and
\* run_blocking raises TimeoutError with its message (line 132-135).
CallTimeout ==
    /\ call.pc = "await"
    /\ call.elapsed = call.timeout
    /\ call' = Ended("timeout", MakeTimeoutError(call.desc, call.timeout),
                     IF worker.st = "queued" THEN "cancelled" ELSE worker.st,
                     IF worker.st \in {"returned", "raised"} THEN worker.at ELSE -1)
    /\ leaked' = AfterAbandon(worker, call.func.kind)
    /\ worker' = [st |-> "none"]
    /\ UNCHANGED py311

\* A function whose caller timed out returns at last and frees its thread.
LeakedFinish ==
    /\ leaked.slow > 0
    /\ leaked' = [leaked EXCEPT !.slow = @ - 1]
    /\ UNCHANGED <<py311, call, worker>>

NextBridge ==
    \/ \E k \in FuncKinds, v \in Payloads, t \in Timeouts, d \in Descriptions :
           CallStart([kind |-> k, val |-> v], t, d) /\ UNCHANGED <<batchVars, autoVars, recVars, routeVars, sessVars, tableVars, morphVars,
                                                                   raceVars>>
    \/ WorkerStart
           /\ UNCHANGED <<batchVars, autoVars, recVars, routeVars, sessVars, tableVars, morphVars,
                          raceVars>>
    \/ WorkerFinish
           /\ UNCHANGED <<batchVars, autoVars, recVars, routeVars, sessVars, tableVars, morphVars,
                          raceVars>>
    \/ Tick /\ UNCHANGED <<batchVars, autoVars, recVars, routeVars, sessVars, tableVars, morphVars,
                           raceVars>>
    \/ CallReturn
           /\ UNCHANGED <<batchVars, autoVars, recVars, routeVars, sessVars, tableVars, morphVars,
                          raceVars>>
    \/ CallRaise
           /\ UNCHANGED <<batchVars, autoVars, recVars, routeVars, sessVars, tableVars, morphVars,
                          raceVars>>
    \/ CallTimeout
           /\ UNCHANGED <<batchVars, autoVars, recVars, routeVars, sessVars, tableVars, morphVars,
                          raceVars>>
    \/ LeakedFinish
           /\ UNCHANGED <<batchVars, autoVars, recVars, routeVars, sessVars, tableVars, morphVars,
                          raceVars>>

\* ------------------------------------------------------ run_blocking: claims

\* The worker of the ended call had returned or raised before the deadline.
CompletedInTime == call.wst \in {"returned", "raised"} /\ call.at < call.timeout

\* The step in which the caller's wait ends by timeout.
TimeoutStep ==
    /\ call.pc = "await"
    /\ call'.pc = "ended"
    /\ call.elapsed = call.timeout

\* C5: a call whose worker has not completed within the timeout ends, at the
\* deadline, with the TimeoutError whose message carries the description; the
\* wait never lasts beyond the deadline; and the timeout does not interrupt a
\* running worker: it keeps its pool thread.
TimeoutCarriesDescription ==
    /\ [](call.pc = "await" => call.elapsed <= call.timeout)
    /\ [](call.pc = "ended" /\ ~CompletedInTime =>
            /\ call.outcome.type = "TimeoutError"
            /\ call.outcome.msg =
                 call.desc \o " exceeded " \o ToString(call.timeout) \o "s timeout")
    /\ [][TimeoutStep => BridgeThreadsBusy' = BridgeThreadsBusy]_vars

\* C5 witness: a call timed out while its function was still running, and the
\* function still holds its thread.
TimeoutWitness ==
    /\ call.pc = "ended"
    /\ call.outcome.type = "TimeoutError"
    /\ call.wst = "running"
    /\ call.func.kind = "ok"
    /\ leaked.slow = 1

PoolNeverExhausted ==
    ~ /\ call.pc = "ended"
      /\ call.func.kind = "ok"
      /\ call.wst = "cancelled"
      /\ call.outcome.type = "TimeoutError"
      /\ leaked.hung + leaked.slow = MaxWorkers

\* ============================================== ParameterTools: automations
\* One plugin (id 0) with one parameter (id 0) of range [0, 1] is loaded.
\* host_value is the engine's value of that parameter.
\* Parameter values are exact fractions <<numerator, denominator>>.  The sine
\* curve (line 181-195) needs math.sin and is left out; its loop has the shape
\* of the linear one.

RECURSIVE GCD(_, _)
GCD(a, b) == IF b = 0 THEN a ELSE GCD(b, a % b)

Abs(x) == IF x < 0 THEN -x ELSE x

\* The fraction n/d in lowest terms, d > 0.
Rat(n, d) ==
    LET g == GCD(Abs(n), Abs(d))
        sg == IF d < 0 THEN -1 ELSE 1
    IN  <<sg * (n \div g), sg * (d \div g)>>

RatAdd(x, y) == Rat(x[1] * y[2] + y[1] * x[2], x[2] * y[2])
RatSub(x, y) == Rat(x[1] * y[2] - y[1] * x[2], x[2] * y[2])
RatMul(x, y) == Rat(x[1] * y[1], x[2] * y[2])
RatLess(x, y) == x[1] * y[2] < y[1] * x[2]
RatMin(x, y) == IF RatLess(y, x) THEN y ELSE x
RatMax(x, y) == IF RatLess(x, y) THEN y ELSE x

\* Plugins the engine holds: ids 0 .. NumPlugins - 1.
NumPlugins == 1
\* The ids the uuid4 calls of automate_parameter produce, in order.
AutomationIds == <<"a1", "a2">>

\* Parameters of the plugin: ids 0 .. NumParams - 1.
NumParams == 1

\* The arguments of a request.
PluginArgs == 0..NumPlugins
ParamArgs == 0..NumParams
AutomationTypes == {"linear", "exponential", "random_walk", "bogus"}
\* duration_ms: none, and one that int(duration_ms / 10) truncates to MaxSteps.
Durations == {0, 10 * MaxSteps + 5}
ValuesArgs == {<<>>, <<0, 1>>}

\* The parameter's ranges as get_parameter_info reports them (line 574-591).
ParamMin == Rat(0, 1)
ParamMax == Rat(1, 1)

InitAutomation ==
    /\ automations = <<>>
    /\ threads = <<>>
    /\ writes = <<>>
    /\ host_value = Rat(0, 1)
    /\ mirror = <<>>
    /\ cancel_requested = {}
    /\ sched_calls = {}

\* No request is made.
IdleAutomation == InitAutomation

\* steps = int(duration_ms / 10) (line 151).
StepsOf(duration_ms) == duration_ms \div 10

\* The blocking calls validate_plugin_id (base_tools.py line 245) and
\* get_parameter_info (carla_controller.py line 576-590) make on the thread
\* that calls them.
ValidateCalls == {"get_current_plugin_count"}
InfoCalls == {"get_parameter_info", "get_parameter_data", "get_parameter_ranges",
              "get_current_parameter_value"}

\* validate_plugin_id (base_tools.py line 245-249): the id is in range.
ValidPluginId(plugin_id) == plugin_id >= 0 /\ plugin_id < NumPlugins

\* The range check of validate_parameter_id (base_tools.py line 271-275).  No
\* handler of ParameterTools calls it.
ValidParameterId(parameter_id) == parameter_id >= 0 /\ parameter_id < NumParams

\* What get_parameter_info returns (carla_controller.py line 574-591): for the
\* plugin's parameter its ranges and current value; for an id the plugin does
\* not have, the defaults of line 586-587 and the engine's zero.
ParameterInfo(parameter_id) ==
    IF ValidParameterId(parameter_id)
    THEN [min |-> ParamMin, max |-> ParamMax, current |-> host_value]
    ELSE [min |-> Rat(0, 1), max |-> Rat(1, 1), current |-> Rat(0, 1)]

\* The automation table after a thread has ended, normally (line 210) or in
\* the except clause (line 212-213): _run_automation never touches it.
\* (RecordsAfterThreadEndRemoved: the faulty variant that drops the record.)
RecordsAfterThreadEndRemoved(a) == SubSeq(automations, 1, a - 1)
RecordsAfterThreadEnd(a) == automations

\* automate_parameter (line 65-135), the whole handler: it has no await, so it
\* runs in one piece on the scheduler thread.  It validates the plugin id and
\* reads the parameter's info by calling the engine directly, stores the
\* record and starts the thread.  The parameter id is not validated: for an id
\* the plugin does not have, the engine calls of get_parameter_info either
\* raise (the handler returns the error) or return nothing, and the request
\* goes on with the defaults.
AutomateParameter(plugin_id, parameter_id, automation_type, duration_ms, values) ==
    /\ Len(automations) < Len(AutomationIds)
    /\ IF ~ValidPluginId(plugin_id)
       THEN /\ sched_calls' = sched_calls \cup ValidateCalls
            /\ UNCHANGED <<automations, threads, writes>>
       ELSE /\ sched_calls' = sched_calls \cup ValidateCalls \cup InfoCalls
            /\ \E info_raises \in IF ValidParameterId(parameter_id) THEN {FALSE} ELSE BOOLEAN :
                 IF info_raises
                 THEN UNCHANGED <<automations, threads, writes>>
                 ELSE /\ automations' = Append(automations,
                             [id |-> AutomationIds[Len(automations) + 1],
                              plugin_id |-> plugin_id, parameter_id |-> parameter_id,
                              type |-> automation_type, duration_ms |-> duration_ms,
                              values |-> values, running |-> TRUE])
                      /\ threads' = Append(threads,
                             [pc |-> "run", i |-> 0,
                              info |-> ParameterInfo(parameter_id),
                              current_val |-> ParameterInfo(parameter_id).current])
                      /\ writes' = Append(writes, <<>>)
    /\ UNCHANGED <<host_value, mirror, cancel_requested>>

\* The keyframes of the linear curve (line 154-159) and of the exponential
\* curve (line 168-173).
StartVal(type, values, info) ==
    IF Len(values) >= 2 THEN Rat(values[1], 1)
    ELSE IF type = "linear" THEN info.current ELSE info.min
EndVal(type, values, info) ==
    IF Len(values) >= 2 THEN Rat(values[2], 1) ELSE info.max

\* The value of step i of a linear or exponential automation (line 162-163,
\* 176-177).
\* (CurveValueFromOne: the faulty variant whose progress is (i + 1) / steps.)
CurveValueFromOne(type, values, info, steps, i) ==
    LET start_val == StartVal(type, values, info)
        end_val == EndVal(type, values, info)
        progress == IF type = "linear" THEN Rat(i + 1, steps)
                    ELSE Rat((i + 1) * (i + 1), steps * steps)
    IN  RatAdd(start_val, RatMul(RatSub(end_val, start_val), progress))
CurveValue(type, values, info, steps, i) ==
    LET start_val == StartVal(type, values, info)
        end_val == EndVal(type, values, info)
        progress == IF type = "linear" THEN Rat(i, steps) ELSE Rat(i * i, steps * steps)
    IN  RatAdd(start_val, RatMul(RatSub(end_val, start_val), progress))

\* step_size = (max_val - min_val) * 0.05 (line 201).
StepSize(info) == RatMul(RatSub(info.max, info.min), Rat(1, 20))

\* max(min_val, min(max_val, current_val + delta)) (line 206).
\* (WalkUnclamped: the faulty variant that leaves the clamp out.)
WalkUnclamped(info, current_val, delta) == RatAdd(current_val, delta)
Walk(info, current_val, delta) ==
    RatMax(info.min, RatMin(info.max, RatAdd(current_val, delta)))

\* The deltas random.uniform(-step_size, step_size) is modelled to draw: the
\* two ends of the interval.
Deltas(info) == {RatSub(Rat(0, 1), StepSize(info)), StepSize(info)}

\* The thread runs a loop only for the curve kinds _run_automation knows.
HasLoop(type) == type \in {"linear", "exponential", "random_walk"}

\* `for i in range(steps)` (line 161, 175, 203): the step after step i.
\* (NextStepSkipping: the faulty variant that leaves every other step out.)
NextStepSkipping(i) == i + 2
NextStep(i) == i + 1

\* The threads after the set_parameter call of automation a raised: the
\* except clause (line 212-213) ends the thread of a, and no other.
\* (ThreadsAfterErrorAll: the faulty variant in which the error ends every
\* running thread.)
ThreadsAfterErrorAll(a) ==
    [b \in DOMAIN threads |->
        IF threads[b].pc = "run" THEN [threads[b] EXCEPT !.pc = "error"] ELSE threads[b]]
ThreadsAfterError(a) == [threads EXCEPT ![a].pc = "error"]

\* The loop of automation a is over: range(steps) is exhausted, or the curve
\* kind has no loop.
\* (LoopOverAnyTime: the faulty variant in which the thread may end before
\* its steps are done, as if it ended with its request.)
LoopOverAnyTime(a) == TRUE
LoopOver(a) ==
    HasLoop(automations[a].type) => threads[a].i >= StepsOf(automations[a].duration_ms)

\* One iteration of the loop of _run_automation for automation a (line
\* 161-165, 175-179, 203-208): the value is computed and carla.set_parameter
\* is called, which writes the engine and then the controller's copy
\* (carla_controller.py line 560-565), or raises when the engine call fails;
\* the except clause of line 212-213 then logs the error and the thread ends.
\* The engine ignores a write to a parameter the plugin does not have.
AutomationStep(a) ==
    LET rec == automations[a]
        th == threads[a]
        steps == StepsOf(rec.duration_ms)
    IN  /\ th.pc = "run"
        /\ HasLoop(rec.type)
        /\ th.i < steps
        /\ \E value \in IF rec.type = "random_walk"
                        THEN {Walk(th.info, th.current_val, d) : d \in Deltas(th.info)}
                        ELSE {CurveValue(rec.type, rec.values, th.info, steps, th.i)} :
           \E engine_ok \in BOOLEAN :
              IF engine_ok
              THEN /\ host_value' = IF ValidParameterId(rec.parameter_id) THEN value
                                    ELSE host_value
                   /\ mirror' = (rec.parameter_id :> value) @@ mirror
                   /\ writes' = [writes EXCEPT ![a] = Append(@, value)]
                   /\ threads' = [threads EXCEPT ![a].i = NextStep(@), ![a].current_val =
                            IF rec.type = "random_walk" THEN value ELSE @]
                   /\ UNCHANGED automations
              ELSE /\ threads' = ThreadsAfterError(a)
                   /\ writes' = [writes EXCEPT ![a] = Append(@, value)]
                   /\ automations' = RecordsAfterThreadEnd(a)
                   /\ UNCHANGED <<host_value, mirror>>
        /\ UNCHANGED <<cancel_requested, sched_calls>>

\* The loop is over, or the curve kind has none: line 210 logs the completion
\* and the thread ends.  Nothing writes the record: its running flag stays as
\* line 105 set it.
AutomationEnd(a) ==
    /\ threads[a].pc = "run"
    /\ LoopOver(a)
    /\ threads' = [threads EXCEPT ![a].pc = "completed"]
    /\ automations' = RecordsAfterThreadEnd(a)
    /\ UNCHANGED <<writes, host_value, mirror, cancel_requested, sched_calls>>

\* Cancellation of automation a is requested from outside (spec section 5).
\* The source has no operation for it and _run_automation reads no flag.
RequestCancel(a) ==
    /\ threads[a].pc = "run"
    /\ a \notin cancel_requested
    /\ cancel_requested' = cancel_requested \cup {a}
    /\ UNCHANGED <<automations, threads, writes, host_value, mirror, sched_calls>>

NextAutomation ==
    \/ \E p \in PluginArgs, q \in ParamArgs, t \in AutomationTypes, d \in Durations,
          v \in ValuesArgs :
           AutomateParameter(p, q, t, d, v) /\ UNCHANGED <<batchVars, bridgeVars, recVars, routeVars, sessVars, tableVars, morphVars,
                                                           raceVars>>
    \/ \E a \in DOMAIN automations : AutomationStep(a)
           /\ UNCHANGED <<batchVars, bridgeVars, recVars, routeVars, sessVars, tableVars, morphVars,
                          raceVars>>
    \/ \E a \in DOMAIN automations : AutomationEnd(a)
           /\ UNCHANGED <<batchVars, bridgeVars, recVars, routeVars, sessVars, tableVars, morphVars,
                          raceVars>>
    \/ \E a \in DOMAIN automations : RequestCancel(a)
           /\ UNCHANGED <<batchVars, bridgeVars, recVars, routeVars, sessVars, tableVars, morphVars,
                          raceVars>>


\* ================================ ParameterTools: recordings, set_parameter
\* The same plugin and engine value as above.  A recording samples parameters
\* on its own thread while set_parameter requests change the value.

\* The ids the uuid4 calls of record_automation produce, in order.
RecordingIds == <<"r1">>

\* The `parameters` argument: lists of parameter ids, id NumParams being one the
\* plugin does not have.
ParameterLists == {<<>>, <<0>>, <<NumParams>>, <<0, NumParams>>}

\* duration_ms of a recording: none, or long enough for MaxSamples rounds.
RecordDurations == {0, 10 * MaxSamples}

\* The values set_parameter requests carry.
SetValues == {Rat(1, 4), Rat(3, 4)}

InitRecording ==
    /\ recording_sessions = <<>>
    /\ rthreads = <<>>
    /\ set_results = <<>>

\* No recording and no set_parameter request is made.
IdleRecording == InitRecording

\* recording_data['parameters'] as line 419-423 fills it.
EmptyTracks(parameters) ==
    [q \in {parameters[k] : k \in DOMAIN parameters} |-> <<>>]

\* record_automation (line 391-455), the whole handler: the plugin id is
\* validated, the record is stored without a status, the thread is started,
\* and the handler sleeps 0.1 s on the scheduler thread before it returns.
\* The parameter ids are not validated.
RecordAutomation(plugin_id, parameters, duration_ms) ==
    /\ Len(recording_sessions) < Len(RecordingIds)
    /\ IF ~ValidPluginId(plugin_id)
       THEN /\ sched_calls' = sched_calls \cup ValidateCalls
            /\ UNCHANGED <<recording_sessions, rthreads>>
       ELSE /\ sched_calls' = sched_calls \cup ValidateCalls \cup {"time.sleep"}
            /\ recording_sessions' = Append(recording_sessions,
                    [id |-> RecordingIds[Len(recording_sessions) + 1],
                     plugin_id |-> plugin_id,
                     parameters |-> EmptyTracks(parameters),
                     duration_ms |-> duration_ms])
            /\ rthreads' = Append(rthreads,
                    [pc |-> "run", parameters |-> parameters, k |-> 0, n |-> 0])
    /\ UNCHANGED <<automations, threads, writes, host_value, mirror, cancel_requested,
                   set_results>>

\* The except clause of _record_parameters (line 488-492): the record stays
\* and gets the status error and the message.
RecordAfterError(rec, msg) ==
    [x \in DOMAIN rec \cup {"status", "error"} |->
        IF x = "status" THEN "error" ELSE IF x = "error" THEN msg ELSE rec[x]]

\* Line 483-484: the record of a recording that ran to its end.
RecordAfterCompletion(rec, first) ==
    [x \in DOMAIN rec \cup {"status", "event_count"} |->
        IF x = "status" THEN "complete"
        ELSE IF x = "event_count" THEN Len(rec.parameters[first])
        ELSE rec[x]]

\* One get_parameter call of the sampling loop (line 475-478) of recording r:
\* the engine's value is appended to the parameter's track, or the call raises
\* and the except clause ends the thread.  For a parameter the plugin does not
\* have the engine returns zero or raises.
RecordSample(r) ==
    LET th == rthreads[r]
        q == th.parameters[th.k + 1]
    IN  /\ th.pc = "run"
        /\ recording_sessions[r].duration_ms > 0
        /\ th.n < MaxSamples
        /\ th.k < Len(th.parameters)
        /\ \E engine_ok \in BOOLEAN :
              IF engine_ok
              THEN /\ recording_sessions' = [recording_sessions EXCEPT
                          ![r].parameters[q] = Append(@,
                              IF ValidParameterId(q) THEN host_value ELSE Rat(0, 1))]
                   /\ rthreads' = [rthreads EXCEPT ![r].k = @ + 1]
              ELSE /\ recording_sessions' = [recording_sessions EXCEPT
                          ![r] = RecordAfterError(@, "get_parameter failed")]
                   /\ rthreads' = [rthreads EXCEPT ![r].pc = "error"]
        /\ UNCHANGED <<autoVars, set_results>>

\* time.sleep(sample_interval) (line 480) after a round over the parameters.
RecordSleep(r) ==
    LET th == rthreads[r]
    IN  /\ th.pc = "run"
        /\ recording_sessions[r].duration_ms > 0
        /\ th.n < MaxSamples
        /\ th.k = Len(th.parameters)
        /\ rthreads' = [rthreads EXCEPT ![r].k = 0, ![r].n = @ + 1]
        /\ UNCHANGED <<autoVars, recording_sessions, set_results>>

\* The duration has elapsed at the test of line 472 (at once for duration 0,
\* otherwise after at least one round): line 483-484 mark the recording
\* complete.  parameters[0] of an empty list raises IndexError, which the
\* except clause records.
RecordEnd(r) ==
    LET th == rthreads[r]
    IN  /\ th.pc = "run"
        /\ th.k = 0
        /\ recording_sessions[r].duration_ms > 0 => th.n >= 1
        /\ IF th.parameters = <<>>
           THEN /\ recording_sessions' = [recording_sessions EXCEPT
                       ![r] = RecordAfterError(@, "list index out of range")]
                /\ rthreads' = [rthreads EXCEPT ![r].pc = "error"]
           ELSE /\ recording_sessions' = [recording_sessions EXCEPT
                       ![r] = RecordAfterCompletion(@, th.parameters[1])]
                /\ rthreads' = [rthreads EXCEPT ![r].pc = "completed"]
        /\ UNCHANGED <<autoVars, set_results>>

\* set_parameter (line 494-535), the whole handler, on the scheduler thread:
\* the plugin id is validated, get_parameter_info and carla.set_parameter call
\* the engine, and the result is returned.  The parameter id is not validated:
\* for an id the plugin does not have the engine calls raise or do nothing,
\* and the controller's copy is written all the same.
SetParameter(plugin_id, parameter_id, value) ==
    /\ Len(set_results) < MaxSamples
    /\ IF ~ValidPluginId(plugin_id)
       THEN /\ sched_calls' = sched_calls \cup ValidateCalls
            /\ set_results' = Append(set_results,
                    [parameter_id |-> parameter_id, success |-> FALSE, calls |-> {}])
            /\ UNCHANGED <<host_value, mirror>>
       ELSE \E engine_ok \in BOOLEAN :
            IF engine_ok
            THEN /\ sched_calls' = sched_calls \cup ValidateCalls \cup InfoCalls
                        \cup {"set_parameter_value", "get_parameter_text"}
                 /\ host_value' = IF ValidParameterId(parameter_id) THEN value
                                  ELSE host_value
                 /\ mirror' = (parameter_id :> value) @@ mirror
                 /\ set_results' = Append(set_results,
                        [parameter_id |-> parameter_id, success |-> TRUE,
                         calls |-> InfoCalls \cup {"set_parameter_value",
                                                   "get_parameter_text"}])
            ELSE /\ sched_calls' = sched_calls \cup ValidateCalls \cup InfoCalls
                 /\ set_results' = Append(set_results,
                        [parameter_id |-> parameter_id, success |-> FALSE,
                         calls |-> InfoCalls])
                 /\ UNCHANGED <<host_value, mirror>>
    /\ UNCHANGED <<automations, threads, writes, cancel_requested,
                   recording_sessions, rthreads>>

NextRecording ==
    \/ \E p \in PluginArgs, l \in ParameterLists, d \in RecordDurations :
           RecordAutomation(p, l, d) /\ UNCHANGED <<batchVars, bridgeVars, routeVars, sessVars, tableVars, morphVars,
                                                    raceVars>>
    \/ \E r \in DOMAIN rthreads : RecordSample(r)
           /\ UNCHANGED <<batchVars, bridgeVars, routeVars, sessVars, tableVars, morphVars,
                          raceVars>>
    \/ \E r \in DOMAIN rthreads : RecordSleep(r)
           /\ UNCHANGED <<batchVars, bridgeVars, routeVars, sessVars, tableVars, morphVars,
                          raceVars>>
    \/ \E r \in DOMAIN rthreads : RecordEnd(r)
           /\ UNCHANGED <<batchVars, bridgeVars, routeVars, sessVars, tableVars, morphVars,
                          raceVars>>
    \/ \E p \in PluginArgs, q \in ParamArgs, v \in SetValues :
           SetParameter(p, q, v) /\ UNCHANGED <<batchVars, bridgeVars, routeVars, sessVars, tableVars, morphVars,
                                                raceVars>>

\* ------------------------------------ automations and recordings: claims

\* C8: the scheduler thread never makes an engine call or a blocking sleep
\* itself while it handles a request.
SchedulerNeverBlocks == sched_calls = {}

\* C9: once the cancellation of an automation has been requested, its thread,
\* which is at an iteration boundary between any two steps, calls
\* set_parameter no more; the values written before stay.
CancelStopsWrites ==
    [][\A a \in DOMAIN automations :
            a \in cancel_requested => writes'[a] = writes[a]]_vars

\* C10: when the loop of an automation has run all its steps, the record's
\* running flag is false.
LoopEndClearsRunning ==
    \A a \in DOMAIN automations :
        threads[a].pc = "completed" => ~automations[a].running

\* The state a record of a process table shows to a query.
RecordStatus(rec) == IF "status" \in DOMAIN rec THEN rec.status ELSE "none"

\* An automation whose set_parameter call raised mid-run has a record in the
\* automation table whose state is error, with the captured message.
AutomationErrorIsRecorded ==
    \A a \in DOMAIN threads :
        threads[a].pc = "error" =>
            /\ a \in DOMAIN automations
            /\ RecordStatus(automations[a]) = "error"
            /\ "error" \in DOMAIN automations[a]

\* The same for a recording whose get_parameter call raised mid-run.
RecordingErrorIsRecorded ==
    \A r \in DOMAIN rthreads :
        rthreads[r].pc = "error" =>
            /\ r \in DOMAIN recording_sessions
            /\ RecordStatus(recording_sessions[r]) = "error"
            /\ "error" \in DOMAIN recording_sessions[r]

\* C11: a process whose engine call raised mid-run ends with a record that is
\* still in its table and whose state is error with the captured message, for
\* automations as well as for recordings.
ErrorLeavesErrorRecord == AutomationErrorIsRecorded /\ RecordingErrorIsRecorded

\* C12: the record automate_parameter inserted is still in the automation
\* table, under its id, after its thread has ended, normally or by an error.
RecordOutlivesThread ==
    \A a \in DOMAIN threads :
        threads[a].pc \in {"completed", "error"} =>
            /\ a \in DOMAIN automations
            /\ automations[a].id = AutomationIds[a]

\* C12 witness: one automation ran all its steps and ended, another ended by
\* an error after a write, and both records are in the table.
RecordOutlivesWitness ==
    \E a, b \in DOMAIN threads :
        /\ threads[a].pc = "completed" /\ Len(writes[a]) = MaxSteps
        /\ threads[b].pc = "error" /\ Len(writes[b]) >= 2
        /\ {a, b} \subseteq DOMAIN automations

\* C13: a linear automation with keyframes 0 and 1 passes i / steps to
\* set_parameter at step i (the i-th call, counted from 0), for every step
\* the loop executes.
LinearStepValues ==
    \A a \in DOMAIN automations :
        automations[a].type = "linear" /\ automations[a].values = <<0, 1>> =>
            \A k \in DOMAIN writes[a] :
                writes[a][k] = Rat(k - 1, StepsOf(automations[a].duration_ms))

\* C13 witness: such an automation has run all of its steps, at least two,
\* and ended.
LinearStepWitness ==
    \E a \in DOMAIN automations :
        /\ automations[a].type = "linear" /\ automations[a].values = <<0, 1>>
        /\ threads[a].pc = "completed"
        /\ Len(writes[a]) = MaxSteps
        /\ writes[a][2] = Rat(1, MaxSteps)

\* C20: a request naming a parameter id outside the plugin's range is
\* rejected before any engine call and before any process is created: no
\* record of the automation table and no recording names such a parameter,
\* nothing is written under one, and a set_parameter request for one fails
\* without an engine call.
InvalidParameterRejected ==
    /\ \A a \in DOMAIN automations : ValidParameterId(automations[a].parameter_id)
    /\ \A r \in DOMAIN recording_sessions :
          \A q \in DOMAIN recording_sessions[r].parameters : ValidParameterId(q)
    /\ \A q \in DOMAIN mirror : ValidParameterId(q)
    /\ \A k \in DOMAIN set_results :
          ~ValidParameterId(set_results[k].parameter_id) =>
              ~set_results[k].success /\ set_results[k].calls = {}

\* C26: within one automation the set_parameter calls are issued in step
\* order: a call is issued only by the running thread, for the step it is at,
\* which is the number of calls it has issued before, and the thread then is
\* at the next step or has ended by the error of that call.
StepsInOrder ==
    [][\A a \in DOMAIN writes :
            writes'[a] # writes[a] =>
                /\ threads[a].pc = "run"
                /\ Len(writes[a]) = threads[a].i
                /\ Len(writes'[a]) = Len(writes[a]) + 1
                /\ SubSeq(writes'[a], 1, Len(writes[a])) = writes[a]
                /\ \/ threads'[a].pc = "run" /\ threads'[a].i = threads[a].i + 1
                   \/ threads'[a].pc = "error" /\ threads'[a].i = threads[a].i]_vars

\* C26 witness: an exponential automation has issued its calls for all its
\* steps, one after the other, and ended.
StepsInOrderWitness ==
    \E a \in DOMAIN automations :
        /\ automations[a].type = "exponential"
        /\ threads[a].pc = "completed"
        /\ threads[a].i = MaxSteps
        /\ Len(writes[a]) = MaxSteps

\* C28: at every moment the status of a recording is one of recording,
\* complete and error, and a recording that ended without an error of
\* get_parameter has the status complete, whatever parameters it records.
RecordingStatusLifecycle ==
    \A r \in DOMAIN recording_sessions :
        /\ RecordStatus(recording_sessions[r]) \in {"recording", "complete", "error"}
        /\ (/\ rthreads[r].pc \in {"completed", "error"}
            /\ \/ "error" \notin DOMAIN recording_sessions[r]
               \/ recording_sessions[r].error # "get_parameter failed")
               => RecordStatus(recording_sessions[r]) = "complete"

\* The curve kinds automate_parameter documents (line 74) and _run_automation
\* has a branch for (line 153, 167, 181, 197).
CurveKinds == {"linear", "exponential", "sine", "random_walk"}

\* C21: automate_parameter rejects a curve kind other than linear,
\* exponential, sine and random_walk: no record of the automation table has
\* another kind.
UnknownCurveRejected ==
    \A a \in DOMAIN automations : automations[a].type \in CurveKinds

\* value is within the range of info.
InRange(info, value) == ~RatLess(value, info.min) /\ ~RatLess(info.max, value)

\* C31: every value a random_walk automation passes to set_parameter lies in
\* the parameter's range [min, max], and it is the value of the step before
\* (the parameter's current value at the first step) moved by a delta of at
\* most 5% of the range and clamped.  Stated of the value passed last, in
\* every state: the calls are only ever appended.
RandomWalkInRange ==
    \A a \in DOMAIN automations :
        automations[a].type = "random_walk" =>
            \A j \in {Len(writes[a])} \ {0} :
                LET info == threads[a].info
                    before == IF j = 1 THEN info.current ELSE writes[a][j - 1]
                IN  /\ InRange(info, writes[a][j])
                    /\ \E d \in Deltas(info) :
                         writes[a][j] =
                             RatMax(info.min, RatMin(info.max, RatAdd(before, d)))

\* A random walk has issued MaxSteps values; one step was held at the lower
\* end of the range by the clamp, and a later one moved up from there.
RandomWalkInRangeWitness ==
    \E a \in DOMAIN automations :
        /\ automations[a].type = "random_walk"
        /\ threads[a].pc = "completed"
        /\ Len(writes[a]) = MaxSteps
        /\ writes[a][1] = threads[a].info.min
        /\ writes[a][2] = StepSize(threads[a].info)

\* C40: when a linear or exponential automation with keyframes [start, end]
\* and at least one step has completed, the last value it wrote is the end
\* value.
AutomationEndsAtEndValue ==
    \A a \in DOMAIN automations :
        (/\ threads[a].pc = "completed"
         /\ automations[a].type \in {"linear", "exponential"}
         /\ Len(automations[a].values) >= 2
         /\ StepsOf(automations[a].duration_ms) >= 1)
            => /\ writes[a] # <<>>
               /\ writes[a][Len(writes[a])] = Rat(automations[a].values[2], 1)

\* ===================================== routing: connections, feedback analysis
\* Three plugins are loaded (carla.plugins holds ids 0, 1, 2, in this order).
\* Peak levels and the sensitivity are in tenths.

\* The ids in carla.plugins.
RoutePlugins == {0, 1, 2}
\* The plugin ids a connect_audio request names: id 3 is not loaded.
RoutePluginArgs == 0..3
\* The average output peak the engine reports for a plugin.
PeakLevels == {5, 9}
\* The sensitivity argument of detect_feedback: its default 0.8.
Sensitivities == {8}

InitRouting ==
    /\ connections = <<>>
    /\ routing_connections = <<>>
    /\ feedback = [done |-> FALSE]
    /\ routing_matrix = [done |-> FALSE]

\* No routing request is made.
IdleRouting == InitRouting

\* connect_audio (routing_tools.py line 57-121), the whole handler: both
\* plugins must be in carla.plugins; carla.connect_audio appends to the
\* controller's list (carla_controller.py line 741-745) and the handler appends
\* the record with its id to the connection table (line 92-99).  Nothing looks
\* for a record with the same ends.  The requests name no port_index: every
\* connection is from port 0 to port 0.  The id uuid4 gives is new: here the
\* number of the connection among all that were made.
ConnectAudio(source_plugin, dest_plugin) ==
    /\ Len(connections) < MaxConnections
    /\ IF source_plugin \in RoutePlugins /\ dest_plugin \in RoutePlugins
       THEN /\ connections' = Append(connections,
                   [source |-> source_plugin, dest |-> dest_plugin])
            /\ routing_connections' = Append(routing_connections,
                   [id |-> Len(connections) + 1,
                    source |-> source_plugin, destination |-> dest_plugin])
            /\ feedback' = [done |-> FALSE]
            /\ routing_matrix' = [done |-> FALSE]
       ELSE UNCHANGED <<connections, routing_connections, feedback, routing_matrix>>

\* graph[p] as the loops of line 457-463 (analysis_tools.py) and line 480-486
\* (routing_tools.py) build it: the destinations of p's connections, in order.
RECURSIVE Neighbors(_, _)
Neighbors(conns, p) ==
    IF conns = <<>> THEN <<>>
    ELSE (IF Head(conns).source = p THEN <<Head(conns).dest>> ELSE <<>>)
         \o Neighbors(Tail(conns), p)

\* The adjacency dict: keys are the plugins that are the source of a connection.
Graph(conns) ==
    [p \in {conns[k].source : k \in DOMAIN conns} |-> Neighbors(conns, p)]

\* has_cycle of detect_feedback (analysis_tools.py line 466-483), with the
\* dicts visited and rec_stack it updates in place: the result is the returned
\* flag and the two dicts as the call leaves them.  HasCycleFrom is the loop
\* over graph[node] from its k-th neighbor on.
RECURSIVE HasCycle(_, _, _, _)
RECURSIVE HasCycleFrom(_, _, _, _, _)
HasCycle(graph, node, visited, rec_stack) ==
    LET v1 == (node :> TRUE) @@ visited
        s1 == (node :> TRUE) @@ rec_stack
        r == IF node \in DOMAIN graph
             THEN HasCycleFrom(graph, graph[node], 1, v1, s1)
             ELSE [found |-> FALSE, visited |-> v1, rec_stack |-> s1]
    IN  IF r.found THEN r
        ELSE [found |-> FALSE, visited |-> r.visited,
              rec_stack |-> (node :> FALSE) @@ r.rec_stack]
HasCycleFrom(graph, nbrs, k, visited, rec_stack) ==
    IF k > Len(nbrs)
    THEN [found |-> FALSE, visited |-> visited, rec_stack |-> rec_stack]
    ELSE LET neighbor == nbrs[k]
             v0 == IF neighbor \in DOMAIN visited THEN visited
                   ELSE (neighbor :> FALSE) @@ visited
             s0 == IF neighbor \in DOMAIN visited THEN rec_stack
                   ELSE (neighbor :> FALSE) @@ rec_stack
         IN  IF ~v0[neighbor]
             THEN LET r == HasCycle(graph, neighbor, v0, s0)
                  IN  IF r.found THEN r
                      ELSE HasCycleFrom(graph, nbrs, k + 1, r.visited, r.rec_stack)
             ELSE IF s0[neighbor]
             THEN [found |-> TRUE, visited |-> v0, rec_stack |-> s0]
             ELSE HasCycleFrom(graph, nbrs, k + 1, v0, s0)

\* Line 486-494: the plugins for which has_cycle, started with fresh dicts,
\* returns True.
CyclePlugins(conns) ==
    {p \in RoutePlugins :
        HasCycle(Graph(conns), p, [q \in RoutePlugins |-> FALSE],
                 [q \in RoutePlugins |-> FALSE]).found}

\* detect_feedback (analysis_tools.py line 438-535): for every plugin that
\* has_cycle reports, the peaks are read from the engine, on the scheduler
\* thread, and the plugin is a feedback point when their average exceeds the
\* sensitivity.
DetectFeedback(sensitivity) ==
    /\ ~feedback.done
    /\ \E peak_avg \in [RoutePlugins -> PeakLevels] :
          LET points == {p \in CyclePlugins(connections) : peak_avg[p] > sensitivity}
          IN  feedback' = [done |-> TRUE, sensitivity |-> sensitivity,
                           peak_avg |-> peak_avg,
                           cycle_plugins |-> CyclePlugins(connections),
                           feedback_points |-> points,
                           feedback_detected |-> points # {}]
    /\ UNCHANGED <<connections, routing_connections, routing_matrix>>

\* The keys of the adjacency dict in insertion order: the sources in the order
\* of their first connection.
RECURSIVE SourcesInOrder(_, _)
SourcesInOrder(conns, seen) ==
    IF conns = <<>> THEN <<>>
    ELSE IF Head(conns).source \in seen THEN SourcesInOrder(Tail(conns), seen)
    ELSE <<Head(conns).source>>
         \o SourcesInOrder(Tail(conns), seen \cup {Head(conns).source})

\* f"{node} -> {neighbor}" (routing_tools.py line 499).
LoopText(node, neighbor) == ToString(node) \o " -> " \o ToString(neighbor)

\* has_cycle of _detect_feedback_loops (routing_tools.py line 489-503), with
\* the sets visited and stack it updates in place and the list loops it
\* appends to.  LoopSearchFrom is the loop over graph[node] from its k-th
\* neighbor on.
RECURSIVE LoopSearch(_, _, _, _, _)
RECURSIVE LoopSearchFrom(_, _, _, _, _, _, _)
LoopSearch(graph, node, visited, stack, loops) ==
    LET r == IF node \in DOMAIN graph
             THEN LoopSearchFrom(graph, node, graph[node], 1, visited \cup {node},
                                 stack \cup {node}, loops)
             ELSE [found |-> FALSE, visited |-> visited \cup {node},
                   stack |-> stack \cup {node}, loops |-> loops]
    IN  IF r.found THEN r
        ELSE [r EXCEPT !.stack = @ \ {node}]
LoopSearchFrom(graph, node, nbrs, k, visited, stack, loops) ==
    IF k > Len(nbrs)
    THEN [found |-> FALSE, visited |-> visited, stack |-> stack, loops |-> loops]
    ELSE LET neighbor == nbrs[k]
         IN  IF neighbor \notin visited
             THEN LET r == LoopSearch(graph, neighbor, visited, stack, loops)
                  IN  IF r.found THEN r
                      ELSE LoopSearchFrom(graph, node, nbrs, k + 1, r.visited, r.stack,
                                          r.loops)
             ELSE IF neighbor \in stack
             THEN [found |-> TRUE, visited |-> visited, stack |-> stack,
                   loops |-> Append(loops, LoopText(node, neighbor))]
             ELSE LoopSearchFrom(graph, node, nbrs, k + 1, visited, stack, loops)

\* Line 505-510: has_cycle is started, with a new stack, from every key of the
\* graph not visited yet; the result is the list loops.
RECURSIVE LoopsFromRoots(_, _, _, _)
LoopsFromRoots(graph, roots, visited, loops) ==
    IF roots = <<>> THEN loops
    ELSE IF Head(roots) \in visited
    THEN LoopsFromRoots(graph, Tail(roots), visited, loops)
    ELSE LET r == LoopSearch(graph, Head(roots), visited, {}, loops)
         IN  LoopsFromRoots(graph, Tail(roots), r.visited, r.loops)

\* _detect_feedback_loops (routing_tools.py line 474-510) over the connection
\* table.
DetectFeedbackLoops(table) ==
    LET conns == [k \in DOMAIN table |->
                     [source |-> table[k].source, dest |-> table[k].destination]]
    IN  LoopsFromRoots(Graph(conns), SourcesInOrder(conns, {}), {}, <<>>)

\* get_routing_matrix (routing_tools.py line 255-317): the result carries the
\* connection count and the feedback loops.
GetRoutingMatrix ==
    /\ ~routing_matrix.done
    /\ routing_matrix' = [done |-> TRUE,
                          connection_count |-> Len(routing_connections),
                          feedback_loops |-> DetectFeedbackLoops(routing_connections)]
    /\ UNCHANGED <<connections, routing_connections, feedback>>

\* The connection table without its k-th record (list.remove, line 340).
TableAfterRemove(table, k) ==
    SubSeq(table, 1, k - 1) \o SubSeq(table, k + 1, Len(table))

\* disconnect_audio (routing_tools.py line 319-358), the whole handler: the
\* record with the id is looked up in the connection table and removed from
\* it, then the engine's patchbay is refreshed.  The controller's list, which
\* carla.connect_audio appended to, is not touched.  An id that is not in the
\* table gives a failure.
DisconnectAudio(connection_id) ==
    /\ IF \E k \in DOMAIN routing_connections :
              routing_connections[k].id = connection_id
       THEN LET k == CHOOSE j \in DOMAIN routing_connections :
                         routing_connections[j].id = connection_id
            IN  routing_connections' = TableAfterRemove(routing_connections, k)
       ELSE UNCHANGED routing_connections
    /\ feedback' = [done |-> FALSE]
    /\ routing_matrix' = [done |-> FALSE]
    /\ UNCHANGED connections

NextRouting ==
    \/ \E p \in RoutePluginArgs, q \in RoutePluginArgs :
           ConnectAudio(p, q)
           /\ UNCHANGED <<batchVars, bridgeVars, autoVars, recVars, sessVars, tableVars, morphVars,
                          raceVars>>
    \/ \E t \in Sensitivities :
           DetectFeedback(t) /\ UNCHANGED <<batchVars, bridgeVars, autoVars, recVars, sessVars, tableVars, morphVars,
                                            raceVars>>
    \/ GetRoutingMatrix
           /\ UNCHANGED <<batchVars, bridgeVars, autoVars, recVars, sessVars, tableVars, morphVars,
                          raceVars>>

\* The plugins named by the requests that also disconnect, and the connection
\* ids they name: every id given so far or later, and one never given.
TablePluginArgs == {0, 1}
ConnectionIdArgs == 1..(MaxConnections + 1)

NextRoutingTable ==
    \/ \E p \in TablePluginArgs, q \in TablePluginArgs :
           ConnectAudio(p, q)
           /\ UNCHANGED <<batchVars, bridgeVars, autoVars, recVars, sessVars, tableVars, morphVars,
                          raceVars>>
    \/ \E c \in ConnectionIdArgs :
           DisconnectAudio(c)
           /\ UNCHANGED <<batchVars, bridgeVars, autoVars, recVars, sessVars, tableVars, morphVars,
                          raceVars>>
    \/ \E t \in Sensitivities :
           DetectFeedback(t) /\ UNCHANGED <<batchVars, bridgeVars, autoVars, recVars, sessVars, tableVars, morphVars,
                                            raceVars>>
    \/ GetRoutingMatrix
           /\ UNCHANGED <<batchVars, bridgeVars, autoVars, recVars, sessVars, tableVars, morphVars,
                          raceVars>>

\* ------------------------------------------------------------ routing: claims

\* The controller's list has a connection from plugin a to plugin b.
Edge(a, b) ==
    \E k \in DOMAIN connections :
        connections[k].source = a /\ connections[k].dest = b

\* Plugin b is reached from plugin a over at least one and at most n connections.
RECURSIVE ReachIn(_, _, _)
ReachIn(a, b, n) ==
    /\ n > 0
    /\ \/ Edge(a, b)
       \/ \E c \in RoutePlugins : Edge(a, c) /\ ReachIn(c, b, n - 1)

\* The plugins that lie on a directed cycle of the connections.
OnCycle == {p \in RoutePlugins : ReachIn(p, p, Cardinality(RoutePlugins))}

\* C14: the cycle detection reports exactly the plugins that lie on a directed
\* cycle of the connections.
CyclesAreExact == feedback.done => feedback.cycle_plugins = OnCycle

\* C15: feedback is reported only if some plugin that lies on a cycle has a
\* peak above the sensitivity; a plugin that only feeds a cycle does not
\* trigger the report.
FeedbackNeedsLoudCycleMember ==
    feedback.done /\ feedback.feedback_detected =>
        \E p \in OnCycle : feedback.peak_avg[p] > feedback.sensitivity

\* C22: no two records of the connection table have the same source plugin,
\* source port, destination plugin and destination port (the ports are all 0).
NoDuplicateConnections ==
    \A j, k \in DOMAIN routing_connections :
        (/\ routing_connections[j].source = routing_connections[k].source
         /\ routing_connections[j].destination = routing_connections[k].destination)
            => j = k

\* The connections that were made and not disconnected: those of the
\* controller's list whose id is still in the connection table.
RECURSIVE LiveFrom(_)
LiveFrom(k) ==
    IF k > Len(connections) THEN <<>>
    ELSE (IF \E j \in DOMAIN routing_connections : routing_connections[j].id = k
          THEN <<connections[k]>> ELSE <<>>)
         \o LiveFrom(k + 1)
LiveConnections == LiveFrom(1)

\* C23: a connection that disconnect_audio removed is no edge of the graph of
\* either feedback analysis: detect_feedback and the feedback_loops of
\* get_routing_matrix report what they report for the connections that were
\* made and not disconnected.
DisconnectedIsNoEdge ==
    /\ feedback.done => feedback.cycle_plugins = CyclePlugins(LiveConnections)
    /\ routing_matrix.done =>
          routing_matrix.feedback_loops =
              LoopsFromRoots(Graph(LiveConnections),
                             SourcesInOrder(LiveConnections, {}), {}, <<>>)

\* ============================================ SessionTools: sessions, snapshots
\* The engine holds one plugin (id 0) with two parameters (ids 0 and 1).
\* Values are in tenths.  The engine is the external collaborator: its
\* save_project writes the parameter values to the file, its load_project
\* either fails and changes nothing or puts the file's values in place, with
\* the plugin active.  Session requests are handled one after another.

\* The parameter ids of the plugin.
SessParams == {0, 1}
\* The values the engine starts with, and those requests set.
StartValues == [q \in SessParams |-> IF q = 0 THEN 3 ELSE 7]
SessValues == {3, 5}
\* The parameters that requests set between the session requests.
ChangedParams == {0}
\* The ids uuid4 produces for the session and for the snapshot.
SessionId == "s1"
SnapshotId == "n1"
\* The session_id argument of switch_session and delete_session.
IdArgs == {"s1", "n1", "zz"}
\* What an operation of a batch does: return, raise, or never return.
RestoreOutcomes == {"ok", "raise", "hang"}

InitSession ==
    /\ sessions = <<>>
    /\ snapshots = <<>>
    /\ active_session = "none"
    /\ files = <<>>
    /\ dirs = {}
    /\ eng_values = StartValues
    /\ eng_active = TRUE
    /\ plugins = (0 :> [active |-> TRUE])
    /\ sreq = [pc |-> "idle"]
    /\ rworker = [st |-> "none"]

\* No session request is made.
IdleSession == InitSession

\* A request can be taken: none is being handled.
SessionFree == sreq.pc \in {"idle", "ended"}

\* A function without the key k (del d[k]).
Without(f, k) == [x \in DOMAIN f \ {k} |-> f[x]]

\* carla.load_project (carla_controller.py line 762-790): the tables are
\* cleared first; after a successful load the plugin table is rebuilt, every
\* plugin active.
PluginsAfterLoad(success) == IF success THEN (0 :> [active |-> TRUE]) ELSE <<>>

\* carla.get_parameter (carla_controller.py line 567-572): 0.0 for a plugin the
\* controller's table does not hold.
GetParameter(q) == IF 0 \in DOMAIN plugins THEN eng_values[q] ELSE 0

\* A parameter is set between two session requests, through
\* carla.set_parameter (carla_controller.py line 549-565), which does nothing
\* for a plugin the controller's table does not hold.
ChangeParameter(q, value) ==
    /\ SessionFree
    /\ eng_values[q] # value
    /\ 0 \in DOMAIN plugins
    /\ eng_values' = [eng_values EXCEPT ![q] = value]
    /\ sreq' = [pc |-> "idle"]
    /\ UNCHANGED <<sessions, snapshots, active_session, files, dirs, eng_active,
                   plugins, rworker>>

\* save_session (line 229-320), the whole handler: without an active session a
\* session entry is created and made active (line 243-251); the project is
\* saved and, if that succeeded, the path is recorded on the active session.
SaveSession(save_ok) ==
    /\ SessionFree
    /\ LET created == IF active_session = "none"
                      THEN (SessionId :> [saved |-> FALSE]) @@ sessions
                      ELSE sessions
           active == IF active_session = "none" THEN SessionId ELSE active_session
       IN  /\ active_session' = active
           /\ sessions' = IF save_ok THEN [created EXCEPT ![active].saved = TRUE]
                          ELSE created
           /\ files' = IF save_ok THEN (active :> eng_values) @@ files ELSE files
           /\ sreq' = [pc |-> "ended", tool |-> "save_session", id |-> active,
                       branch |-> "session", result |-> [success |-> save_ok]]
    /\ UNCHANGED <<snapshots, dirs, eng_values, eng_active, plugins, rworker>>

\* create_snapshot (line 322-457), the whole handler: the directory is made,
\* the project saved (the result of save_project is not looked at), the
\* parameters are read through batch_blocking, where a failed read gives None
\* and is left out of the map (line 404-410), and the snapshot is stored.
\* info_ok tells whether get_plugin_info answered in its batch: for a plugin
\* whose slot is None no state is appended, and nothing is logged (line
\* 394-395).  at_capture, which the code does not have, keeps the engine's
\* values of that moment.
CreateSnapshot(save_ok, info_ok, read_ok) ==
    /\ SessionFree
    /\ SnapshotId \notin DOMAIN snapshots
    /\ IF active_session = "none"
       THEN /\ sreq' = [pc |-> "ended", tool |-> "create_snapshot", id |-> SnapshotId,
                        branch |-> "none",
                        result |-> [success |-> FALSE, error |-> "No active session"]]
            /\ UNCHANGED <<snapshots, files, dirs>>
       ELSE /\ dirs' = dirs \cup {SnapshotId}
            /\ files' = IF save_ok THEN (SnapshotId :> eng_values) @@ files ELSE files
            /\ snapshots' = (SnapshotId :>
                    [session_id |-> active_session,
                     plugin_states |->
                        IF ~info_ok THEN <<>>
                        ELSE
                        <<[id |-> 0,
                           active |-> IF 0 \in DOMAIN plugins THEN plugins[0].active
                                      ELSE FALSE,
                           parameters |-> [q \in {x \in SessParams : read_ok[x]} |->
                                              GetParameter(q)]]>>,
                     at_capture |-> eng_values]) @@ snapshots
            /\ sreq' = [pc |-> "ended", tool |-> "create_snapshot", id |-> SnapshotId,
                        branch |-> "snapshot", result |-> [success |-> TRUE]]
    /\ UNCHANGED <<sessions, active_session, eng_values, eng_active, plugins, rworker>>

\* param_ops of switch_session (line 487-499) for one plugin state: one
\* set_parameter operation per captured parameter, in the order of the map.
RECURSIVE ParamOpsFrom(_, _)
ParamOpsFrom(parameters, q) ==
    IF q \notin SessParams THEN <<>>
    ELSE (IF q \in DOMAIN parameters THEN <<[param |-> q, value |-> parameters[q]]>>
          ELSE <<>>)
         \o ParamOpsFrom(parameters, q + 1)

\* The result of a failed request.
Failure(msg) == [success |-> FALSE, error |-> msg]

\* The result switch_session returns after a snapshot restore (line 552-557).
\* Nothing of the batches' results enters it.
RestoreResult(id, failed) ==
    [success |-> TRUE, active_session |-> id, type |-> "snapshot"]

\* switch_session (line 459-595) up to its first blocking call and through it:
\* - an id of the session table (line 561-588): the session's project is
\*   loaded; a session without a path raises KeyError before anything is done;
\* - an id of the snapshot table (line 473-482): the snapshot's project is
\*   loaded; when that succeeded the restore begins, otherwise control falls
\*   through to line 561, where self.sessions[session_id] raises KeyError;
\* - another id: Session not found (line 559).
\* load_ok is the engine's answer; a project file that does not exist cannot
\* be loaded.
SwitchBegin(id, load_ok) ==
    /\ SessionFree
    /\ rworker.st # "running"
    /\ IF id \in DOMAIN sessions
       THEN IF ~sessions[id].saved
            THEN /\ sreq' = [pc |-> "ended", tool |-> "switch_session", id |-> id,
                             branch |-> "session", result |-> Failure("'path'")]
                 /\ UNCHANGED <<active_session, eng_values, eng_active, plugins, rworker>>
            ELSE /\ plugins' = PluginsAfterLoad(load_ok)
                 /\ eng_values' = IF load_ok THEN files[id] ELSE eng_values
                 /\ eng_active' = IF load_ok THEN TRUE ELSE eng_active
                 /\ active_session' = IF load_ok THEN id ELSE active_session
                 /\ sreq' = [pc |-> "ended", tool |-> "switch_session", id |-> id,
                             branch |-> "session",
                             result |-> IF load_ok
                                        THEN [success |-> TRUE, active_session |-> id,
                                              type |-> "session"]
                                        ELSE Failure("Failed to load session")]
                 /\ UNCHANGED rworker
       ELSE IF id \in DOMAIN snapshots
       THEN LET success == load_ok /\ id \in DOMAIN files
                ops == IF snapshots[id].plugin_states = <<>> THEN <<>>
                       ELSE ParamOpsFrom(snapshots[id].plugin_states[1].parameters, 0)
            IN  /\ plugins' = PluginsAfterLoad(success)
                /\ eng_values' = IF success THEN files[id] ELSE eng_values
                /\ eng_active' = IF success THEN TRUE ELSE eng_active
                /\ IF success
                   THEN /\ sreq' = [pc |-> IF ops = <<>> THEN "active" ELSE "params",
                                    tool |-> "switch_session", id |-> id,
                                    branch |-> "snapshot", timed_out |-> FALSE,
                                    raised |-> {}, applied |-> {},
                                    active_op |-> "none"]
                        /\ rworker' = IF ops = <<>> THEN [st |-> "none"]
                                      ELSE [st |-> "running", ops |-> ops, pos |-> 0,
                                            raised |-> {}, applied |-> {}]
                   ELSE /\ sreq' = [pc |-> "ended", tool |-> "switch_session", id |-> id,
                                    branch |-> "snapshot",
                                    result |-> Failure("'" \o id \o "'")]
                        /\ UNCHANGED rworker
                /\ UNCHANGED active_session
       ELSE /\ sreq' = [pc |-> "ended", tool |-> "switch_session", id |-> id,
                        branch |-> "none", result |-> Failure("Session not found: " \o id)]
            /\ UNCHANGED <<active_session, eng_values, eng_active, plugins, rworker>>
    /\ UNCHANGED <<sessions, snapshots, files, dirs>>

\* The worker after an operation of its batch raised: execute_batch logs it,
\* appends None and goes on with the next operation (async_helpers.py line
\* 204-206).
\* (AfterRestoreRaiseAbort: the faulty variant in which the exception ends
\* execute_batch.)
AfterRestoreRaiseAbort(w, q) ==
    [w EXCEPT !.raised = @ \cup {q}, !.pos = Len(w.ops)]
AfterRestoreRaise(w, q) ==
    [w EXCEPT !.raised = @ \cup {q}, !.pos = @ + 1]

\* One set_parameter operation of the restore batch runs on the worker thread
\* (async_helpers.py line 200-206, carla_controller.py line 549-565): it writes
\* the engine, raises, or never returns.
RestoreOp(outcome) ==
    /\ rworker.st = "running"
    /\ rworker.pos < Len(rworker.ops)
    /\ LET op == rworker.ops[rworker.pos + 1]
       IN  CASE outcome = "ok" ->
                 /\ eng_values' = IF 0 \in DOMAIN plugins
                                  THEN [eng_values EXCEPT ![op.param] = op.value]
                                  ELSE eng_values
                 /\ rworker' = [rworker EXCEPT !.applied = @ \cup {op.param},
                                               !.pos = @ + 1]
             [] outcome = "raise" ->
                 /\ rworker' = AfterRestoreRaise(rworker, op.param)
                 /\ UNCHANGED eng_values
             [] outcome = "hang" ->
                 /\ rworker' = [st |-> "hung"]
                 /\ UNCHANGED eng_values
    /\ UNCHANGED <<sessions, snapshots, active_session, files, dirs, eng_active, plugins,
                   sreq>>

\* execute_batch returns (async_helpers.py line 207).
RestoreWorkerReturn ==
    /\ rworker.st = "running"
    /\ rworker.pos = Len(rworker.ops)
    /\ rworker' = [rworker EXCEPT !.st = "done"]
    /\ UNCHANGED <<sessions, snapshots, active_session, files, dirs, eng_values,
                   eng_active, plugins, sreq>>

\* batch_blocking returns for the parameter batch (line 510-515) with the
\* worker's results, None for an operation that raised; the handler does not
\* look at them.
RestoreParamsReturn ==
    /\ sreq.pc = "params"
    /\ rworker.st = "done"
    /\ sreq' = [sreq EXCEPT !.pc = "active", !.raised = rworker.raised,
                            !.applied = rworker.applied]
    /\ rworker' = [st |-> "none"]
    /\ UNCHANGED <<sessions, snapshots, active_session, files, dirs, eng_values,
                   eng_active, plugins>>

\* The parameter batch times out (async_helpers.py line 216-218): the handler
\* goes on, the worker is not stopped.
RestoreParamsTimeout ==
    /\ sreq.pc = "params"
    /\ rworker.st \in {"running", "hung"}
    /\ sreq' = [sreq EXCEPT !.pc = "active", !.timed_out = TRUE]
    /\ UNCHANGED <<sessions, snapshots, active_session, files, dirs, eng_values,
                   eng_active, plugins, rworker>>

\* The batch of the active flags (line 518-524): its one set_plugin_active
\* operation (carla_controller.py line 541-547) sets the flag or raises.  For
\* a snapshot without plugin states there is no operation and no batch.
RestoreActive(op_ok) ==
    /\ sreq.pc = "active"
    /\ IF snapshots[sreq.id].plugin_states = <<>>
       THEN /\ op_ok
            /\ sreq' = [sreq EXCEPT !.pc = "volume"]
            /\ UNCHANGED <<eng_active, plugins>>
       ELSE /\ LET active == snapshots[sreq.id].plugin_states[1].active
               IN  IF op_ok /\ 0 \in DOMAIN plugins
                   THEN /\ eng_active' = active
                        /\ plugins' = [plugins EXCEPT ![0].active = active]
                   ELSE UNCHANGED <<eng_active, plugins>>
            /\ sreq' = [sreq EXCEPT !.pc = "volume",
                                    !.active_op = IF op_ok THEN "ok" ELSE "raised"]
    /\ UNCHANGED <<sessions, snapshots, active_session, files, dirs, eng_values, rworker>>

\* The writes of the restore that failed, as far as the handler could know.
FailedWrites ==
    sreq.raised
    \cup (IF sreq.timed_out THEN {"timeout"} ELSE {})
    \cup (IF sreq.active_op = "raised" THEN {"active"} ELSE {})

\* Line 528-557: volume and dry/wet are set through run_blocking, whose
\* exception ends the request as a failure; otherwise the result is returned.
\* For a snapshot without plugin states no call is made.
SwitchReturn(volume_ok) ==
    /\ sreq.pc = "volume"
    /\ snapshots[sreq.id].plugin_states = <<>> => volume_ok
    /\ sreq' = [pc |-> "ended", tool |-> "switch_session", id |-> sreq.id,
                branch |-> "snapshot", restored |-> TRUE,
                timed_out |-> sreq.timed_out, raised |-> sreq.raised,
                applied |-> sreq.applied, active_op |-> sreq.active_op,
                result |-> IF volume_ok THEN RestoreResult(sreq.id, FailedWrites)
                           ELSE Failure("set_volume failed")]
    /\ UNCHANGED <<sessions, snapshots, active_session, files, dirs, eng_values,
                   eng_active, plugins, rworker>>

\* The snapshot table after delete_session removed the files: line 677 says
\* `del self.snapshots[snapshot_id]`, and no name snapshot_id exists in
\* delete_session, so the statement raises NameError and removes nothing.
SnapshotsAfterDelete(id) == snapshots

\* delete_session (line 642-693), the whole handler.  tree_ok is the outcome of
\* remove_tree.
DeleteSession(id, tree_ok) ==
    /\ SessionFree
    /\ IF id \in DOMAIN sessions
       THEN IF id = active_session
            THEN /\ sreq' = [pc |-> "ended", tool |-> "delete_session", id |-> id,
                             branch |-> "session",
                             result |-> Failure("Cannot delete active session")]
                 /\ UNCHANGED <<sessions, snapshots, files, dirs>>
            ELSE /\ sessions' = Without(sessions, id)
                 /\ sreq' = [pc |-> "ended", tool |-> "delete_session", id |-> id,
                             branch |-> "session",
                             result |-> [success |-> TRUE, deleted |-> id,
                                         type |-> "session"]]
                 /\ UNCHANGED <<snapshots, files, dirs>>
       ELSE IF id \in DOMAIN snapshots
       THEN IF id \in dirs /\ ~tree_ok
            THEN /\ sreq' = [pc |-> "ended", tool |-> "delete_session", id |-> id,
                             branch |-> "snapshot",
                             result |-> Failure("remove tree failed")]
                 /\ UNCHANGED <<sessions, snapshots, files, dirs>>
            ELSE /\ dirs' = dirs \ {id}
                 /\ files' = Without(files, id)
                 /\ snapshots' = SnapshotsAfterDelete(id)
                 /\ sreq' = [pc |-> "ended", tool |-> "delete_session", id |-> id,
                             branch |-> "snapshot",
                             result |-> Failure("name 'snapshot_id' is not defined")]
                 /\ UNCHANGED sessions
       ELSE /\ sreq' = [pc |-> "ended", tool |-> "delete_session", id |-> id,
                        branch |-> "none", result |-> Failure("Session not found: " \o id)]
            /\ UNCHANGED <<sessions, snapshots, files, dirs>>
    /\ UNCHANGED <<active_session, eng_values, eng_active, plugins, rworker>>

NextSession ==
    \/ \E q \in ChangedParams, v \in SessValues :
           ChangeParameter(q, v)
           /\ UNCHANGED <<batchVars, bridgeVars, autoVars, recVars, routeVars, tableVars,
                        morphVars, raceVars>>
    \/ \E save_ok \in BOOLEAN :
           SaveSession(save_ok)
           /\ UNCHANGED <<batchVars, bridgeVars, autoVars, recVars, routeVars, tableVars,
                        morphVars, raceVars>>
    \/ \E save_ok \in BOOLEAN, info_ok \in BOOLEAN, read_ok \in [SessParams -> BOOLEAN] :
           CreateSnapshot(save_ok, info_ok, read_ok)
           /\ UNCHANGED <<batchVars, bridgeVars, autoVars, recVars, routeVars, tableVars,
                        morphVars, raceVars>>
    \/ \E id \in IdArgs, load_ok \in BOOLEAN :
           SwitchBegin(id, load_ok)
           /\ UNCHANGED <<batchVars, bridgeVars, autoVars, recVars, routeVars, tableVars,
                        morphVars, raceVars>>
    \/ \E outcome \in RestoreOutcomes :
           RestoreOp(outcome)
           /\ UNCHANGED <<batchVars, bridgeVars, autoVars, recVars, routeVars, tableVars,
                        morphVars, raceVars>>
    \/ RestoreWorkerReturn
           /\ UNCHANGED <<batchVars, bridgeVars, autoVars, recVars, routeVars, tableVars,
                        morphVars, raceVars>>
    \/ RestoreParamsReturn
           /\ UNCHANGED <<batchVars, bridgeVars, autoVars, recVars, routeVars, tableVars,
                        morphVars, raceVars>>
    \/ RestoreParamsTimeout
           /\ UNCHANGED <<batchVars, bridgeVars, autoVars, recVars, routeVars, tableVars,
                        morphVars, raceVars>>
    \/ \E op_ok \in BOOLEAN :
           RestoreActive(op_ok)
           /\ UNCHANGED <<batchVars, bridgeVars, autoVars, recVars, routeVars, tableVars,
                        morphVars, raceVars>>
    \/ \E volume_ok \in BOOLEAN :
           SwitchReturn(volume_ok)
           /\ UNCHANGED <<batchVars, bridgeVars, autoVars, recVars, routeVars, tableVars,
                        morphVars, raceVars>>
    \/ \E id \in IdArgs, tree_ok \in BOOLEAN :
           DeleteSession(id, tree_ok)
           /\ UNCHANGED <<batchVars, bridgeVars, autoVars, recVars, routeVars, tableVars,
                        morphVars, raceVars>>

\* ================================================ sessions and snapshots: claims

\* A snapshot restore has gone through its batches: the project was loaded,
\* the snapshot holds a plugin state, and the request is at or past the batch
\* of the active flags.
RestoreApplied ==
    /\ sreq.pc \in {"active", "volume", "ended"}
    /\ sreq.tool = "switch_session"
    /\ sreq.branch = "snapshot"
    /\ "timed_out" \in DOMAIN sreq
    /\ snapshots[sreq.id].plugin_states # <<>>

\* A switch_session with a snapshot id has returned success.
RestoreSucceeded ==
    /\ RestoreApplied
    /\ sreq.pc = "ended"
    /\ sreq.result.success

\* The plugin state the snapshot of the request captured.
Captured == snapshots[sreq.id].plugin_states[1]

\* C16: after a snapshot was captured and then restored (switch_session with
\* the snapshot id returned success, no write of the restore failed or timed
\* out), every parameter of the engine has the value it had at capture time.
SnapshotRoundTrip ==
    (RestoreSucceeded /\ ~sreq.timed_out /\ sreq.raised = {} /\ sreq.active_op = "ok")
        => \A q \in SessParams : eng_values[q] = snapshots[sreq.id].at_capture[q]

\* C17: after delete_session was called with a snapshot id (and removing the
\* directory did not fail), the snapshot's files are gone and the snapshot is
\* no longer in the snapshot table.
DeletedSnapshotIsGone ==
    (/\ sreq.pc = "ended"
     /\ sreq.tool = "delete_session"
     /\ sreq.branch = "snapshot"
     /\ sreq.result.error # "remove tree failed")
        => /\ sreq.id \notin dirs
           /\ sreq.id \notin DOMAIN files
           /\ sreq.id \notin DOMAIN snapshots

\* C18: in a snapshot restore whose parameter batch did not time out, every
\* captured parameter whose set_parameter operation did not raise has been
\* written with its captured value, whatever the other operations did, and the
\* active flag has been applied after it.
RestoreIsolatesFailures ==
    (RestoreApplied /\ ~sreq.timed_out)
        => /\ \A q \in DOMAIN Captured.parameters :
                  \/ q \in sreq.raised
                  \/ q \in sreq.applied /\ eng_values[q] = Captured.parameters[q]
           /\ sreq.pc \in {"volume", "ended"} => sreq.active_op # "none"
           /\ (sreq.pc \in {"volume", "ended"} /\ sreq.active_op = "ok")
                  => eng_active = Captured.active

\* A restore has returned in which the write of parameter 0 raised and
\* parameter 1 and the active flag were applied all the same.
RestoreIsolatesWitness ==
    /\ RestoreSucceeded
    /\ ~sreq.timed_out
    /\ sreq.raised = {0}
    /\ sreq.applied = {1}
    /\ eng_values[1] = Captured.parameters[1]
    /\ sreq.active_op = "ok"
    /\ eng_active = Captured.active

\* C19: a snapshot restore in which some write raised or timed out, and which
\* returns success, carries a warnings list in its result.
RestoreFailuresAreWarned ==
    (RestoreSucceeded /\ FailedWrites # {}) => "warnings" \in DOMAIN sreq.result

\* C32: a snapshot holds one parameter map for every plugin of the engine
\* (here the one plugin, id 0), none left out, and each map holds under a
\* parameter's index the value carla.get_parameter gave for it.
SnapshotCoversPlugins ==
    \A id \in DOMAIN snapshots :
        LET states == snapshots[id].plugin_states
        IN  /\ Len(states) = 1
            /\ states[1].id = 0
            /\ \A q \in DOMAIN states[1].parameters :
                 /\ q \in SessParams
                 /\ states[1].parameters[q] \in {snapshots[id].at_capture[q], 0}

\* The step is a whole delete_session call that returns a failure.
FailedDeleteStep ==
    /\ SessionFree
    /\ "tool" \in DOMAIN sreq'
    /\ sreq'.tool = "delete_session"
    /\ sreq'.pc = "ended"
    /\ ~sreq'.result.success

\* C36: a delete_session call that returns success = false has changed
\* nothing: the session table, the snapshot table and the files and
\* directories of the snapshots are as before the call.
FailedDeleteChangesNothing ==
    [][FailedDeleteStep =>
          /\ sessions' = sessions
          /\ snapshots' = snapshots
          /\ files' = files
          /\ dirs' = dirs]_vars

\* The step is a switch_session call whose load_project failed.
FailedLoadStep ==
    /\ SessionFree
    /\ "tool" \in DOMAIN sreq'
    /\ sreq'.tool = "switch_session"
    /\ sreq'.pc = "ended"
    /\ sreq'.branch \in {"session", "snapshot"}
    /\ sreq'.result.error # "'path'"

\* C38: a load_project call that fails leaves the controller's plugin table as
\* it was before the call: the plugins known before a failed switch_session
\* are known after it.
FailedLoadKeepsTable ==
    [][FailedLoadStep => plugins' = plugins]_vars

\* ============================= CarlaController: the plugin table under a load
\* carla.plugins, the variable `plugins` above, is a plain dict.  load_project
\* runs on a thread of the pool (run_blocking), carla.set_parameter runs on the
\* thread of an automation; no lock is taken anywhere in the source, so their
\* statements interleave.  The engine holds the plugin with id 0.

\* The plugin ids the set_parameter calls of the automation thread name.
TablePluginIds == {0, 1}
\* What the engine's load_project answers.
LoadAnswers == BOOLEAN

InitTables ==
    /\ loadw = [pc |-> "idle", loads |-> 0]
    /\ setw = [pc |-> "idle", calls |-> 0]

\* No project is loaded and no automation thread runs.
IdleTables == InitTables

\* The variables of the session component these actions leave alone.
sessRest == <<sessions, snapshots, active_session, files, dirs, eng_values, eng_active,
              sreq, rworker>>

\* load_project line 772-773 on the pool thread: the tables are cleared.
LoadClear ==
    /\ loadw.pc = "idle"
    /\ loadw.loads < MaxLoads
    /\ plugins' = <<>>
    /\ loadw' = [loadw EXCEPT !.pc = "cleared", !.loads = @ + 1]
    /\ UNCHANGED <<setw, sessRest>>

\* Line 776: the engine loads the project; on failure load_project returns
\* False with the table empty (line 790).
LoadEngine(success) ==
    /\ loadw.pc = "cleared"
    /\ loadw' = [loadw EXCEPT !.pc = IF success THEN "rebuild" ELSE "idle"]
    /\ UNCHANGED <<plugins, setw, sessRest>>

\* Line 780-788: the record of the engine's plugin is inserted, and
\* load_project returns.
LoadRebuild ==
    /\ loadw.pc = "rebuild"
    /\ plugins' = (0 :> [active |-> TRUE]) @@ plugins
    /\ loadw' = [loadw EXCEPT !.pc = "idle"]
    /\ UNCHANGED <<setw, sessRest>>

\* carla.set_parameter line 557-558 on the automation thread: the membership
\* test; the call returns at once for a plugin that is not in the table.
SetTest(plugin_id) ==
    /\ setw.pc = "idle"
    /\ setw.calls < MaxSteps
    /\ setw' = IF plugin_id \in DOMAIN plugins
               THEN [pc |-> "tested", calls |-> setw.calls, plugin_id |-> plugin_id]
               ELSE [pc |-> "idle", calls |-> setw.calls + 1]
    /\ UNCHANGED <<plugins, loadw, sessRest>>

\* Line 560: the engine call.
SetEngineCall ==
    /\ setw.pc = "tested"
    /\ setw' = [setw EXCEPT !.pc = "called"]
    /\ UNCHANGED <<plugins, loadw, sessRest>>

\* Line 563-564: self.plugins[plugin_id] is subscripted again and gets an
\* empty 'parameters' dict if it has none; a key that is gone raises KeyError,
\* which ends the automation thread (parameter_tools.py line 212-213).
SetLookup ==
    /\ setw.pc = "called"
    /\ IF setw.plugin_id \in DOMAIN plugins
       THEN /\ plugins' = [plugins EXCEPT ![setw.plugin_id] =
                              [active |-> @.active, parameters |-> TRUE]]
            /\ setw' = [setw EXCEPT !.pc = "looked"]
       ELSE /\ setw' = [setw EXCEPT !.pc = "KeyError"]
            /\ UNCHANGED plugins
    /\ UNCHANGED <<loadw, sessRest>>

\* Line 565: self.plugins[plugin_id]['parameters'][param_id] = value; the
\* plugin's key or the 'parameters' key may be gone by now.
SetStore ==
    /\ setw.pc = "looked"
    /\ setw' = IF /\ setw.plugin_id \in DOMAIN plugins
                  /\ "parameters" \in DOMAIN plugins[setw.plugin_id]
               THEN [pc |-> "idle", calls |-> setw.calls + 1]
               ELSE [setw EXCEPT !.pc = "KeyError"]
    /\ UNCHANGED <<plugins, loadw, sessRest>>

NextTables ==
    \/ LoadClear
           /\ UNCHANGED <<batchVars, bridgeVars, autoVars, recVars, routeVars, morphVars, raceVars>>
    \/ \E success \in LoadAnswers :
           LoadEngine(success)
           /\ UNCHANGED <<batchVars, bridgeVars, autoVars, recVars, routeVars, morphVars, raceVars>>
    \/ LoadRebuild
           /\ UNCHANGED <<batchVars, bridgeVars, autoVars, recVars, routeVars, morphVars, raceVars>>
    \/ \E p \in TablePluginIds :
           SetTest(p)
           /\ UNCHANGED <<batchVars, bridgeVars, autoVars, recVars, routeVars, morphVars, raceVars>>
    \/ SetEngineCall
           /\ UNCHANGED <<batchVars, bridgeVars, autoVars, recVars, routeVars, morphVars, raceVars>>
    \/ SetLookup
           /\ UNCHANGED <<batchVars, bridgeVars, autoVars, recVars, routeVars, morphVars, raceVars>>
    \/ SetStore
           /\ UNCHANGED <<batchVars, bridgeVars, autoVars, recVars, routeVars, morphVars, raceVars>>

\* ------------------------------------------------------ plugin table: claims

\* load_project is between its clear and the end of its rebuild.
LoadInTable == loadw.pc \in {"cleared", "rebuild"}

\* A set_parameter call is between its membership test and its last access.
SetInTable == setw.pc \in {"tested", "called", "looked"}

\* C24: insertions into and removals from the plugin table exclude every other
\* use of the table: load_project is never between its clear and its last
\* insertion while a set_parameter call of another thread is between its
\* membership test and its store.
TableMutationsExclusive == ~(LoadInTable /\ SetInTable)

\* ======================================= ParameterTools: morph and randomize
\* The plugin (id 0) has three parameters of range [0, 1]; pvalues holds the
\* engine's values.  target_state arrives as a JSON object: its keys are
\* strings, kept here in the order of the object.

\* Parameters of the plugin: what get_parameter_count returns.
ParamCount == 3
PluginParams == 0..(ParamCount - 1)

\* The bit randomize_parameters tests in a parameter's hints (line 604), which
\* the source calls the IS_AUTOMATABLE flag.
IS_AUTOMATABLE == 256

\* The hints the engine reports: parameters 0 and 2 carry the flag, parameter
\* 1 does not.
Hints == [q \in PluginParams |-> IF q = 1 THEN 16 ELSE 16 + IS_AUTOMATABLE]

\* hints & 0x100 is not zero.
HasAutomatableFlag(q) == (Hints[q] \div IS_AUTOMATABLE) % 2 = 1

\* int(param_id) for the keys used, and str(param_id).
IntOf(key) == CASE key = "0" -> 0 [] key = "1" -> 1 [] key = "01" -> 1
StrOf(q) == ToString(q)

\* The target_state arguments: lists of key and target value.
TargetStates ==
    {<<>>,
     <<[key |-> "0", value |-> Rat(1, 1)]>>,
     <<[key |-> "0", value |-> Rat(1, 1)], [key |-> "1", value |-> Rat(1, 2)]>>,
     <<[key |-> "01", value |-> Rat(1, 2)]>>,
     <<[key |-> "1", value |-> Rat(1, 2)], [key |-> "01", value |-> Rat(1, 1)]>>}

\* duration_ms of a morph: less than one step, and MaxSteps steps.
MorphDurations == {5, 10 * MaxSteps}

\* The exclude argument of randomize_parameters.
ExcludeArgs == {{}, {0}, {1, 2}}

\* amount: its default 0.5.
Amount == Rat(1, 2)

InitMorph ==
    /\ pvalues = [q \in PluginParams |-> Rat(0, 1)]
    /\ morph = [pc |-> "none"]
    /\ mwrites = <<>>
    /\ rand = [done |-> FALSE]

\* No morph and no randomize request is made.
IdleMorph == InitMorph

\* morph_parameters (line 643-686), the whole handler: the plugin id is
\* validated, the current value of every targeted parameter is read under
\* int(key) (line 659-662), and the thread is started.
MorphParameters(plugin_id, target_state, duration_ms) ==
    /\ morph.pc = "none"
    /\ ValidPluginId(plugin_id)
    /\ morph' = [pc |-> IF StepsOf(duration_ms) = 0 THEN "final" ELSE "run",
                 i |-> 0, k |-> 0, steps |-> StepsOf(duration_ms),
                 keys |-> [j \in DOMAIN target_state |-> IntOf(target_state[j].key)],
                 current_state |->
                     [q \in {IntOf(target_state[j].key) : j \in DOMAIN target_state} |->
                         pvalues[q]],
                 target_state |-> target_state]
    /\ UNCHANGED <<pvalues, mwrites, rand>>

\* value = current + (target - current) * progress with progress = i / steps
\* (line 702, 709).
\* (MorphValueFromOne: the faulty variant whose progress is (i + 1) / steps.)
MorphValueFromOne(current, target, steps, i) ==
    RatAdd(current, RatMul(RatSub(target, current), Rat(i + 1, steps)))
MorphValue(current, target, steps, i) ==
    RatAdd(current, RatMul(RatSub(target, current), Rat(i, steps)))

\* target_state[str(param_id)] is there (line 706).
HasTarget(target_state, q) ==
    \E j \in DOMAIN target_state : target_state[j].key = StrOf(q)
TargetOf(target_state, q) ==
    target_state[CHOOSE j \in DOMAIN target_state : target_state[j].key = StrOf(q)].value

\* One pass of the inner loop of _morph_parameters (line 704-710): the value
\* of the next parameter of current_state is computed and carla.set_parameter
\* is called.  A key that str(param_id) does not give back raises KeyError,
\* a failing engine call raises too; the except clause (line 720-721) logs
\* and the thread ends.
MorphStep ==
    /\ morph.pc = "run"
    /\ morph.k < Len(morph.keys)
    /\ LET q == morph.keys[morph.k + 1]
       IN  IF ~HasTarget(morph.target_state, q)
           THEN /\ morph' = [morph EXCEPT !.pc = "error"]
                /\ UNCHANGED <<pvalues, mwrites>>
           ELSE LET value == MorphValue(morph.current_state[q],
                                        TargetOf(morph.target_state, q),
                                        morph.steps, morph.i)
                IN  /\ mwrites' = Append(mwrites,
                           [step |-> morph.i, final |-> FALSE, param |-> q,
                            value |-> value])
                    /\ \E engine_ok \in BOOLEAN :
                         IF engine_ok
                         THEN /\ pvalues' = [pvalues EXCEPT ![q] = value]
                              /\ morph' = [morph EXCEPT !.k = @ + 1]
                         ELSE /\ morph' = [morph EXCEPT !.pc = "error"]
                              /\ UNCHANGED pvalues
    /\ UNCHANGED rand

\* time.sleep(0.01) at the end of step i (line 712); after the last step the
\* loop over the final values begins.
MorphSleep ==
    /\ morph.pc = "run"
    /\ morph.k = Len(morph.keys)
    /\ morph' = [morph EXCEPT !.i = @ + 1, !.k = 0,
                              !.pc = IF morph.i + 1 = morph.steps THEN "final" ELSE "run"]
    /\ UNCHANGED <<pvalues, mwrites, rand>>

\* One pass of the loop over the final values (line 715-716):
\* set_parameter(int(key), target).
MorphFinal ==
    /\ morph.pc = "final"
    /\ morph.k < Len(morph.target_state)
    /\ LET pair == morph.target_state[morph.k + 1]
           q == IntOf(pair.key)
           value == pair.value
       IN  /\ mwrites' = Append(mwrites,
                  [step |-> morph.steps, final |-> TRUE, param |-> q, value |-> value])
           /\ \E engine_ok \in BOOLEAN :
                IF engine_ok
                THEN /\ pvalues' = [pvalues EXCEPT ![q] = value]
                     /\ morph' = [morph EXCEPT !.k = @ + 1]
                ELSE /\ morph' = [morph EXCEPT !.pc = "error"]
                     /\ UNCHANGED pvalues
    /\ UNCHANGED rand

\* Line 718: the morph is complete.
MorphEnd ==
    /\ morph.pc = "final"
    /\ morph.k = Len(morph.target_state)
    /\ morph' = [morph EXCEPT !.pc = "completed"]
    /\ UNCHANGED <<pvalues, mwrites, rand>>

\* new_val = current + (random_val - current) * amount (line 613-614), with
\* random_val at one end of the parameter's range.
RandomValue(current, pick) ==
    RatAdd(current,
           RatMul(RatSub(IF pick = "min" THEN ParamMin ELSE ParamMax, current), Amount))

\* The loop of randomize_parameters (line 596-624) from parameter q on: a
\* parameter of the exclude list is passed over (line 597-598), so is one whose
\* hints carry the bit (line 604-605); the others are written.  fail_at is the
\* parameter whose set_parameter raises, if any: the handler then returns the
\* failure with the earlier parameters written.
RECURSIVE RandomizeFrom(_, _, _, _, _, _)
RandomizeFrom(q, exclude, picks, fail_at, values, written) ==
    IF q >= ParamCount
    THEN [success |-> TRUE, values |-> values, written |-> written]
    ELSE IF q \in exclude \/ HasAutomatableFlag(q)
    THEN RandomizeFrom(q + 1, exclude, picks, fail_at, values, written)
    ELSE IF q = fail_at
    THEN [success |-> FALSE, values |-> values, written |-> written]
    ELSE LET new_val == RandomValue(values[q], picks[q])
         IN  RandomizeFrom(q + 1, exclude, picks, fail_at,
                           [values EXCEPT ![q] = new_val],
                           Append(written, [param |-> q, value |-> new_val]))

\* randomize_parameters (line 576-637), the whole handler, which has no await.
RandomizeParameters(plugin_id, exclude) ==
    /\ ~rand.done
    /\ IF ~ValidPluginId(plugin_id)
       THEN /\ rand' = [done |-> TRUE, success |-> FALSE, exclude |-> exclude,
                        written |-> <<>>]
            /\ UNCHANGED pvalues
       ELSE \E picks \in [PluginParams -> {"min", "max"}],
               fail_at \in PluginParams \cup {ParamCount} :
               LET r == RandomizeFrom(0, exclude, picks, fail_at, pvalues, <<>>)
               IN  /\ rand' = [done |-> TRUE, success |-> r.success,
                               exclude |-> exclude, written |-> r.written]
                   /\ pvalues' = r.values
    /\ UNCHANGED <<morph, mwrites>>

NextMorph ==
    \/ \E p \in PluginArgs, ts \in TargetStates, d \in MorphDurations :
           MorphParameters(p, ts, d)
           /\ UNCHANGED <<batchVars, bridgeVars, autoVars, recVars, routeVars, sessVars,
                          tableVars, raceVars>>
    \/ MorphStep
           /\ UNCHANGED <<batchVars, bridgeVars, autoVars, recVars, routeVars, sessVars,
                          tableVars, raceVars>>
    \/ MorphSleep
           /\ UNCHANGED <<batchVars, bridgeVars, autoVars, recVars, routeVars, sessVars,
                          tableVars, raceVars>>
    \/ MorphFinal
           /\ UNCHANGED <<batchVars, bridgeVars, autoVars, recVars, routeVars, sessVars,
                          tableVars, raceVars>>
    \/ MorphEnd
           /\ UNCHANGED <<batchVars, bridgeVars, autoVars, recVars, routeVars, sessVars,
                          tableVars, raceVars>>
    \/ \E p \in PluginArgs, x \in ExcludeArgs :
           RandomizeParameters(p, x)
           /\ UNCHANGED <<batchVars, bridgeVars, autoVars, recVars, routeVars, sessVars,
                          tableVars, raceVars>>

\* ------------------------------------------------- morph and randomize: claims

\* The last value the morph wrote to parameter q.
LastMorphWrite(q) ==
    mwrites[CHOOSE j \in DOMAIN mwrites :
                /\ mwrites[j].param = q
                /\ \A j2 \in DOMAIN mwrites : mwrites[j2].param = q => j2 <= j].value

\* C29: every value a morph writes in step i lies on the line from the value
\* captured at start to the target, at i / steps, for every targeted parameter
\* over the same step count; all parameters of step i are written before any
\* of step i + 1; the final values are targets, and when the morph completes
\* the last value written to each targeted parameter is a target given for it.
MorphInterpolates ==
    morph.pc # "none" =>
        /\ \A j \in DOMAIN mwrites :
             LET w == mwrites[j]
             IN  IF w.final
                 THEN /\ w.step = morph.steps
                      /\ \E n \in DOMAIN morph.target_state :
                           /\ IntOf(morph.target_state[n].key) = w.param
                           /\ morph.target_state[n].value = w.value
                 ELSE /\ w.step < morph.steps
                      /\ w.param \in DOMAIN morph.current_state
                      /\ \E n \in DOMAIN morph.target_state :
                           /\ morph.target_state[n].key = StrOf(w.param)
                           /\ w.value =
                                  RatAdd(morph.current_state[w.param],
                                         RatMul(RatSub(morph.target_state[n].value,
                                                       morph.current_state[w.param]),
                                                Rat(w.step, morph.steps)))
        /\ \A j \in DOMAIN mwrites :
             \A i \in 0..(mwrites[j].step - 1), q \in DOMAIN morph.current_state :
                 \E j0 \in 1..(j - 1) :
                     /\ mwrites[j0].step = i
                     /\ mwrites[j0].param = q
                     /\ ~mwrites[j0].final
        /\ \A j, j2 \in DOMAIN mwrites : j < j2 => mwrites[j].step <= mwrites[j2].step
        /\ morph.pc = "completed" =>
             \A n \in DOMAIN morph.target_state :
                 LET q == IntOf(morph.target_state[n].key)
                 IN  \E n2 \in DOMAIN morph.target_state :
                         /\ IntOf(morph.target_state[n2].key) = q
                         /\ LastMorphWrite(q) = morph.target_state[n2].value

\* A morph of two parameters over MaxSteps steps has completed: every step
\* wrote both, step 1 wrote parameter 0 at 1 / MaxSteps of its way, and the
\* final loop wrote both targets.
MorphInterpolatesWitness ==
    /\ morph.pc = "completed"
    /\ morph.steps = MaxSteps
    /\ Len(morph.target_state) = 2
    /\ morph.keys = <<0, 1>>
    /\ Len(mwrites) = 2 * MaxSteps + 2
    /\ mwrites[3] = [step |-> 1, final |-> FALSE, param |-> 0,
                     value |-> Rat(1, MaxSteps)]
    /\ LastMorphWrite(0) = Rat(1, 1)
    /\ LastMorphWrite(1) = Rat(1, 2)

\* C30: randomize_parameters writes no parameter of the exclude list and none
\* that lacks the automatable flag, and a request that succeeds has written
\* every other parameter of the plugin exactly once.
RandomizeWritesEligible ==
    rand.done =>
        /\ \A j \in DOMAIN rand.written :
             /\ rand.written[j].param \notin rand.exclude
             /\ HasAutomatableFlag(rand.written[j].param)
        /\ rand.success =>
             \A q \in PluginParams :
                 (q \notin rand.exclude /\ HasAutomatableFlag(q)) =>
                     Cardinality({j \in DOMAIN rand.written :
                                      rand.written[j].param = q}) = 1

\* ============================== automations, a recording and a morph together
\* The threads of two automations, of a recording and of a morph run side by
\* side, each started by a request with valid arguments.

\* The curve kinds, the duration and the keyframes of these automations.
ProcessCurves == {"linear", "exponential"}
ProcessDuration == 10 * MaxSteps
ProcessValues == <<0, 1>>
\* The recorded parameters and the duration of the recording.
ProcessParameters == <<0>>
ProcessRecordDuration == 10 * MaxSamples
\* The targets of the morph.
ProcessTargets == <<[key |-> "0", value |-> Rat(1, 1)]>>

NextProcesses ==
    \/ \E t \in ProcessCurves :
           AutomateParameter(0, 0, t, ProcessDuration, ProcessValues)
           /\ UNCHANGED <<batchVars, bridgeVars, recVars, routeVars, sessVars, tableVars,
                          morphVars, raceVars>>
    \/ \E a \in DOMAIN automations :
           AutomationStep(a)
           /\ UNCHANGED <<batchVars, bridgeVars, recVars, routeVars, sessVars, tableVars,
                          morphVars, raceVars>>
    \/ \E a \in DOMAIN automations :
           AutomationEnd(a)
           /\ UNCHANGED <<batchVars, bridgeVars, recVars, routeVars, sessVars, tableVars,
                          morphVars, raceVars>>
    \/ RecordAutomation(0, ProcessParameters, ProcessRecordDuration)
           /\ UNCHANGED <<batchVars, bridgeVars, routeVars, sessVars, tableVars, morphVars,
                          raceVars>>
    \/ \E r \in DOMAIN rthreads :
           RecordSample(r)
           /\ UNCHANGED <<batchVars, bridgeVars, routeVars, sessVars, tableVars, morphVars,
                          raceVars>>
    \/ \E r \in DOMAIN rthreads :
           RecordSleep(r)
           /\ UNCHANGED <<batchVars, bridgeVars, routeVars, sessVars, tableVars, morphVars,
                          raceVars>>
    \/ \E r \in DOMAIN rthreads :
           RecordEnd(r)
           /\ UNCHANGED <<batchVars, bridgeVars, routeVars, sessVars, tableVars, morphVars,
                          raceVars>>
    \/ MorphParameters(0, ProcessTargets, ProcessDuration)
           /\ UNCHANGED <<batchVars, bridgeVars, autoVars, recVars, routeVars, sessVars,
                          tableVars, raceVars>>
    \/ MorphStep
           /\ UNCHANGED <<batchVars, bridgeVars, autoVars, recVars, routeVars, sessVars,
                          tableVars, raceVars>>
    \/ MorphSleep
           /\ UNCHANGED <<batchVars, bridgeVars, autoVars, recVars, routeVars, sessVars,
                          tableVars, raceVars>>
    \/ MorphFinal
           /\ UNCHANGED <<batchVars, bridgeVars, autoVars, recVars, routeVars, sessVars,
                          tableVars, raceVars>>
    \/ MorphEnd
           /\ UNCHANGED <<batchVars, bridgeVars, autoVars, recVars, routeVars, sessVars,
                          tableVars, raceVars>>

\* ------------------------------------------------------ the processes: claims

\* C25: the thread a request started is still running once the response is
\* returned, and it ends only with its loop: an automation thread that has
\* completed has issued every step of its duration, a recording thread that
\* has completed has sampled, and a morph thread that has completed has issued
\* every step for every parameter and every final value.
ProcessesOutliveRequests ==
    /\ \A a \in DOMAIN threads :
         /\ threads[a].pc \in {"run", "completed", "error"}
         /\ (threads[a].pc = "completed" /\ HasLoop(automations[a].type)) =>
                Len(writes[a]) = StepsOf(automations[a].duration_ms)
         /\ threads[a].pc = "error" => Len(writes[a]) >= 1
    /\ \A r \in DOMAIN rthreads :
         (rthreads[r].pc = "completed" /\ recording_sessions[r].duration_ms > 0) =>
             \A q \in DOMAIN recording_sessions[r].parameters :
                 Len(recording_sessions[r].parameters[q]) >= 1
    /\ morph.pc = "completed" =>
         Len(mwrites) = morph.steps * Len(morph.keys) + Len(morph.target_state)

\* The three responses are returned, and every loop is in the middle of its
\* work: the first automation has issued one step of MaxSteps, the recording
\* has sampled one round, the morph is in its second step.
ProcessesOutliveRequestsWitness ==
    /\ Len(automations) >= 1
    /\ threads[1].pc = "run"
    /\ Len(writes[1]) = 1
    /\ StepsOf(automations[1].duration_ms) = MaxSteps
    /\ Len(recording_sessions) = 1
    /\ rthreads[1].pc = "run"
    /\ rthreads[1].n = 1
    /\ morph.pc = "run"
    /\ morph.i = 1

\* C27: the step in which the thread of an automation ends with an error is a
\* set_parameter call of that automation, and it leaves every other automation
\* thread, every recording thread and the morph thread as they were; the other
\* threads end only with their own loops.
ErrorAbortsOnlyItsProcess ==
    /\ [][\A a \in DOMAIN threads :
            (threads[a].pc = "run" /\ threads'[a].pc = "error") =>
                /\ Len(writes'[a]) = Len(writes[a]) + 1
                /\ \A b \in DOMAIN threads \ {a} :
                       threads'[b] = threads[b] /\ writes'[b] = writes[b]
                /\ rthreads' = rthreads
                /\ recording_sessions' = recording_sessions
                /\ morph' = morph]_vars
    /\ [](\A b \in DOMAIN threads :
            (threads[b].pc = "completed" /\ HasLoop(automations[b].type)) =>
                Len(writes[b]) = StepsOf(automations[b].duration_ms))

\* The first automation failed at its first step; the second automation and
\* the recording are in the middle of their loops and go on.
ErrorAbortsOnlyItsProcessWitness ==
    /\ Len(automations) = 2
    /\ threads[1].pc = "error"
    /\ Len(writes[1]) = 1
    /\ threads[2].pc = "run"
    /\ Len(writes[2]) = 1
    /\ Len(recording_sessions) = 1
    /\ rthreads[1].pc = "run"
    /\ rthreads[1].n = 1

\* ================================== SessionTools: requests that overlap
\* The handlers are coroutines on one event loop: a handler runs alone up to
\* an await of run_blocking, where other requests run, and goes on from there.

\* str(uuid.uuid4()) (line 100, 245): an id no other request is given, here
\* the number of the request.
NewSessionId(r) == ToString(r)

\* The paths of load_session and save_session.
LoadPath == "loaded.carxp"
SavePath == "saved.carxp"
\* The session_id argument of switch_session and delete_session.
RaceIdArgs == {NewSessionId(r) : r \in 1..MaxRequests}

\* The variables of the session component these handlers leave alone.
raceRest == <<snapshots, files, dirs, eng_values, eng_active, plugins, sreq, rworker>>

IdleRace ==
    /\ requests = <<>>
    /\ response = [request |-> 0]
    /\ issued = 0

InitRace == IdleRace

\* The suspended requests without request r.
Resumed(r) == [x \in DOMAIN requests \ {r} |-> requests[x]]

\* The suspended requests with request r.
Suspended(r, rec) == (r :> rec) @@ requests

\* load_session (line 83-94) up to its first await: nothing is written.
LoadSessionBegin ==
    /\ issued < MaxRequests
    /\ issued' = issued + 1
    /\ requests' = Suspended(issued + 1, [tool |-> "load_session", path |-> LoadPath])
    /\ UNCHANGED <<sessions, active_session, response>>

\* load_session from the return of load_project on (line 96-220): a failed load
\* returns the failure; otherwise the session is stored under a new id and
\* made active (line 190-200).  The awaits in between read the engine only.
LoadSessionEnd(r, success) ==
    /\ r \in DOMAIN requests
    /\ requests[r].tool = "load_session"
    /\ requests' = Resumed(r)
    /\ IF success
       THEN /\ sessions' = (NewSessionId(r) :> [saved |-> TRUE, path |-> requests[r].path])
                             @@ sessions
            /\ active_session' = NewSessionId(r)
       ELSE UNCHANGED <<sessions, active_session>>
    /\ response' = [request |-> r, tool |-> "load_session", success |-> success]
    /\ UNCHANGED issued

\* save_session (line 241-259) up to its await: without an active session an
\* entry without a path is created and made active.  active keeps the session
\* that is active when the save is requested, which the code does not keep.
SaveSessionBegin ==
    /\ issued < MaxRequests
    /\ issued' = issued + 1
    /\ LET r == issued + 1
           active == IF active_session = "none" THEN NewSessionId(r) ELSE active_session
       IN  /\ sessions' = IF active_session = "none"
                          THEN (active :> [saved |-> FALSE, path |-> "none"]) @@ sessions
                          ELSE sessions
           /\ active_session' = active
           /\ requests' = Suspended(r, [tool |-> "save_session", path |-> SavePath,
                                        active |-> active])
    /\ UNCHANGED response

\* The session table after line 265 recorded the path of request r under key.
PathRecorded(r, key) ==
    [sessions EXCEPT ![key] = [saved |-> TRUE, path |-> requests[r].path]]

\* save_session from the return of save_project on (line 261-304): a failed
\* save returns the failure; otherwise the path is recorded on
\* self.sessions[self.active_session], read at this moment (line 265).  A key
\* the table does not hold raises KeyError, which the except clause returns.
\* The file calls that follow (line 269-290) write no table; one that raises
\* (files_ok false) makes the response a failure.
SaveSessionEnd(r, success, files_ok) ==
    /\ r \in DOMAIN requests
    /\ requests[r].tool = "save_session"
    /\ requests' = Resumed(r)
    /\ IF success /\ active_session \in DOMAIN sessions
       THEN sessions' = PathRecorded(r, active_session)
       ELSE UNCHANGED sessions
    /\ response' = [request |-> r, tool |-> "save_session",
                    success |-> success /\ active_session \in DOMAIN sessions /\ files_ok]
    /\ UNCHANGED <<active_session, issued>>

\* switch_session with the id of a session (line 470-574) up to its await:
\* the record is looked up (line 561) and its path read (line 571).  An id
\* the session table does not hold, or a record without a path, ends the
\* request with a failure.
SwitchSessionBegin(session_id) ==
    /\ issued < MaxRequests
    /\ issued' = issued + 1
    /\ IF session_id \in DOMAIN sessions /\ sessions[session_id].saved
       THEN /\ requests' = Suspended(issued + 1,
                               [tool |-> "switch_session", id |-> session_id])
            /\ UNCHANGED response
       ELSE /\ response' = [request |-> issued + 1, tool |-> "switch_session",
                            success |-> FALSE]
            /\ UNCHANGED requests
    /\ UNCHANGED <<sessions, active_session>>

\* switch_session from the return of load_project on (line 576-588): after a
\* successful load the id is made the active session (line 579).
SwitchSessionEnd(r, success) ==
    /\ r \in DOMAIN requests
    /\ requests[r].tool = "switch_session"
    /\ requests' = Resumed(r)
    /\ active_session' = IF success THEN requests[r].id ELSE active_session
    /\ response' = [request |-> r, tool |-> "switch_session", success |-> success]
    /\ UNCHANGED <<sessions, issued>>

\* delete_session with the id of a session (line 651-666, 685-693), the whole
\* handler: this branch has no await.  The active session is not deleted.
DeleteSessionCall(session_id) ==
    /\ issued < MaxRequests
    /\ issued' = issued + 1
    /\ IF session_id \in DOMAIN sessions /\ session_id # active_session
       THEN /\ sessions' = Without(sessions, session_id)
            /\ response' = [request |-> issued + 1, tool |-> "delete_session",
                            success |-> TRUE]
       ELSE /\ response' = [request |-> issued + 1, tool |-> "delete_session",
                            success |-> FALSE]
            /\ UNCHANGED sessions
    /\ UNCHANGED <<active_session, requests>>

NextRace ==
    \/ LoadSessionBegin
           /\ UNCHANGED <<batchVars, bridgeVars, autoVars, recVars, routeVars, tableVars,
                          morphVars, raceRest, setcalls>>
    \/ \E r \in DOMAIN requests, success \in BOOLEAN :
           LoadSessionEnd(r, success)
           /\ UNCHANGED <<batchVars, bridgeVars, autoVars, recVars, routeVars, tableVars,
                          morphVars, raceRest, setcalls>>
    \/ SaveSessionBegin
           /\ UNCHANGED <<batchVars, bridgeVars, autoVars, recVars, routeVars, tableVars,
                          morphVars, raceRest, setcalls>>
    \/ \E r \in DOMAIN requests, success \in BOOLEAN, files_ok \in BOOLEAN :
           SaveSessionEnd(r, success, files_ok)
           /\ UNCHANGED <<batchVars, bridgeVars, autoVars, recVars, routeVars, tableVars,
                          morphVars, raceRest, setcalls>>
    \/ \E id \in RaceIdArgs :
           SwitchSessionBegin(id)
           /\ UNCHANGED <<batchVars, bridgeVars, autoVars, recVars, routeVars, tableVars,
                          morphVars, raceRest, setcalls>>
    \/ \E r \in DOMAIN requests, success \in BOOLEAN :
           SwitchSessionEnd(r, success)
           /\ UNCHANGED <<batchVars, bridgeVars, autoVars, recVars, routeVars, tableVars,
                          morphVars, raceRest, setcalls>>
    \/ \E id \in RaceIdArgs :
           DeleteSessionCall(id)
           /\ UNCHANGED <<batchVars, bridgeVars, autoVars, recVars, routeVars, tableVars,
                          morphVars, raceRest, setcalls>>

\* C35: the active session is unset or the id of a session of the session
\* table, in every state requests that overlap at their awaits can reach.
ActiveSessionIsKnown ==
    active_session = "none" \/ active_session \in DOMAIN sessions

\* C37: the step in which save_session returns success records the saved path
\* on the session that was active when the save was requested, and on no
\* other session.
SavedPathOnRequestedSession ==
    [][\A r \in DOMAIN requests :
          (/\ requests[r].tool = "save_session"
           /\ r \notin DOMAIN requests'
           /\ response'.request = r
           /\ response'.success)
              => /\ requests[r].active \in DOMAIN sessions'
                 /\ sessions'[requests[r].active].path = requests[r].path
                 /\ \A id \in DOMAIN sessions \ {requests[r].active} :
                        id \in DOMAIN sessions' /\ sessions'[id] = sessions[id]]_vars

\* ====================== CarlaController.set_parameter: two writers of a parameter
\* Two threads call carla.set_parameter for parameter 0 of plugin 0: the
\* threads of two automations, or one of them and the set_parameter request.
\* Each call writes the engine (line 560) and then the controller's copy (line
\* 565); nothing keeps the two writes of a call together.

WriterIds == {1, 2}

\* The value of call k of writer w: no two calls pass the same value.
WriterValue(w, k) == Rat(2 * (k - 1) + w, 2 * MaxSteps + 2)

\* No writer.
IdleWriters == setcalls = [w \in WriterIds |-> [n |-> 0, k |-> 0, pc |-> "call"]]

\* Each writer has between one call (the set_parameter request) and MaxSteps
\* calls (an automation) to make.
InitWriters ==
    /\ setcalls \in [WriterIds -> {[n |-> c, k |-> 0, pc |-> "call"] : c \in 1..MaxSteps}]
    /\ InitAutomation

\* The variables of the automation component the writers leave alone.
writersRest == <<automations, threads, writes, cancel_requested, sched_calls>>

\* Line 560: self.host.set_parameter_value(plugin_id, param_id, value).
WriterEngineCall(w) ==
    /\ setcalls[w].pc = "call"
    /\ setcalls[w].k < setcalls[w].n
    /\ host_value' = WriterValue(w, setcalls[w].k + 1)
    /\ setcalls' = [setcalls EXCEPT ![w].pc = "store"]
    /\ UNCHANGED mirror

\* Line 563-565: self.plugins[plugin_id]['parameters'][param_id] = value.
WriterStore(w) ==
    /\ setcalls[w].pc = "store"
    /\ mirror' = (0 :> WriterValue(w, setcalls[w].k + 1)) @@ mirror
    /\ setcalls' = [setcalls EXCEPT ![w].pc = "call", ![w].k = @ + 1]
    /\ UNCHANGED host_value

NextWriters ==
    \/ \E w \in WriterIds :
           WriterEngineCall(w)
           /\ UNCHANGED <<batchVars, bridgeVars, recVars, routeVars, sessVars, tableVars,
                          morphVars, writersRest, requests, response, issued>>
    \/ \E w \in WriterIds :
           WriterStore(w)
           /\ UNCHANGED <<batchVars, bridgeVars, recVars, routeVars, sessVars, tableVars,
                          morphVars, writersRest, requests, response, issued>>

\* C39: once every writer of the parameter has finished, the controller's copy
\* of the parameter is the value written to the engine last.
MirrorFollowsEngine ==
    (\A w \in WriterIds : setcalls[w].k = setcalls[w].n) => mirror[0] = host_value

\* ============================================================ specifications

Init ==
    /\ InitBatch /\ InitBridge /\ InitAutomation /\ InitRecording /\ InitRouting
    /\ InitSession /\ InitTables /\ InitMorph /\ InitRace /\ IdleWriters

Next ==
    NextBatch \/ NextBridge \/ NextAutomation \/ NextRecording \/ NextRouting
    \/ NextRoutingTable \/ NextSession \/ NextTables \/ NextMorph \/ NextProcesses
    \/ NextBatchYield \/ NextRace \/ NextWriters

\* Everything together.
Spec == Init /\ [][Next]_vars

\* One batch_blocking call.
InitSpecBatch ==
    /\ InitBatch /\ IdleBridge /\ IdleAutomation /\ IdleRecording /\ IdleRouting
    /\ IdleSession /\ IdleTables /\ IdleMorph /\ IdleRace /\ IdleWriters
SpecBatch == InitSpecBatch /\ [][NextBatch]_vars

\* One batch_blocking call, with another request of the server.
InitSpecBatchYield ==
    /\ InitBatch /\ IdleBridge /\ IdleAutomation /\ IdleRecording /\ IdleRouting
    /\ IdleSession /\ IdleTables /\ IdleMorph /\ IdleRace /\ IdleWriters
SpecBatchYield == InitSpecBatchYield /\ [][NextBatchYield]_vars

\* run_blocking calls, one after another.
InitSpecBridge ==
    /\ InitBridge /\ IdleBatch /\ IdleAutomation /\ IdleRecording /\ IdleRouting
    /\ IdleSession /\ IdleTables /\ IdleMorph /\ IdleRace /\ IdleWriters
SpecBridge == InitSpecBridge /\ [][NextBridge]_vars

\* Automation requests and the threads they start.
InitSpecAutomation ==
    /\ InitAutomation /\ IdleBatch /\ IdleBridge /\ IdleRecording /\ IdleRouting
    /\ IdleSession /\ IdleTables /\ IdleMorph /\ IdleRace /\ IdleWriters
SpecAutomation == InitSpecAutomation /\ [][NextAutomation]_vars

\* Recordings and the threads they start, with set_parameter requests.
InitSpecRecording ==
    /\ InitRecording /\ InitAutomation /\ IdleBatch /\ IdleBridge /\ IdleRouting
    /\ IdleSession /\ IdleTables /\ IdleMorph /\ IdleRace /\ IdleWriters
SpecRecording == InitSpecRecording /\ [][NextRecording]_vars

\* Connection requests and the feedback analyses.
InitSpecRouting ==
    /\ InitRouting /\ IdleBatch /\ IdleBridge /\ IdleAutomation /\ IdleRecording
    /\ IdleSession /\ IdleTables /\ IdleMorph /\ IdleRace /\ IdleWriters
SpecRouting == InitSpecRouting /\ [][NextRouting]_vars

\* Connection and disconnection requests between two plugins, and the
\* feedback analyses.
InitSpecRoutingTable ==
    /\ InitRouting /\ IdleBatch /\ IdleBridge /\ IdleAutomation /\ IdleRecording
    /\ IdleSession /\ IdleTables /\ IdleMorph /\ IdleRace /\ IdleWriters
SpecRoutingTable == InitSpecRoutingTable /\ [][NextRoutingTable]_vars

\* Session and snapshot requests, one after another.
InitSpecSession ==
    /\ InitSession /\ IdleBatch /\ IdleBridge /\ IdleAutomation /\ IdleRecording
    /\ IdleRouting /\ IdleTables /\ IdleMorph /\ IdleRace /\ IdleWriters
SpecSession == InitSpecSession /\ [][NextSession]_vars

\* A load_project on a pool thread beside the set_parameter calls of an
\* automation thread.
InitSpecTables ==
    /\ InitTables /\ InitSession /\ IdleBatch /\ IdleBridge /\ IdleAutomation
    /\ IdleRecording /\ IdleRouting /\ IdleMorph /\ IdleRace /\ IdleWriters
SpecTables == InitSpecTables /\ [][NextTables]_vars

\* A morph and its thread, and a randomize request.
InitSpecMorph ==
    /\ InitMorph /\ IdleBatch /\ IdleBridge /\ IdleAutomation /\ IdleRecording
    /\ IdleRouting /\ IdleSession /\ IdleTables /\ IdleRace /\ IdleWriters
SpecMorph == InitSpecMorph /\ [][NextMorph]_vars

\* Two automations, a recording and a morph side by side.
InitSpecProcesses ==
    /\ InitAutomation /\ InitRecording /\ InitMorph /\ IdleBatch /\ IdleBridge
    /\ IdleRouting /\ IdleSession /\ IdleTables /\ IdleRace /\ IdleWriters
SpecProcesses == InitSpecProcesses /\ [][NextProcesses]_vars

\* Session requests that overlap at their awaits.
InitSpecSessionRace ==
    /\ InitRace /\ IdleSession /\ IdleBatch /\ IdleBridge /\ IdleAutomation
    /\ IdleRecording /\ IdleRouting /\ IdleTables /\ IdleMorph /\ IdleWriters
SpecSessionRace == InitSpecSessionRace /\ [][NextRace]_vars

\* Two threads that write one parameter.
InitSpecWriters ==
    /\ InitWriters /\ IdleBatch /\ IdleBridge /\ IdleRecording /\ IdleRouting
    /\ IdleSession /\ IdleTables /\ IdleMorph /\ IdleRace
SpecWriters == InitSpecWriters /\ [][NextWriters]_vars

=============================================================================
